---------------------------- MODULE Spec2Model ----------------------------
(***************************************************************************)
(* Visitor classification, bot scoring, datacenter-IP lookup, the          *)
(* tracker's linear-movement detector and the engagement-track handler of  *)
(* mousewhisperer.                                                         *)
(*                                                                         *)
(* The pure functions of the code are operators, written as the code       *)
(* computes them.  Each group of functions has a specification whose Init  *)
(* draws the inputs from bounded sets and whose actions apply them:        *)
(*   SpecClassify   classifyVisitor and calculateBotScore                  *)
(*   SpecParseCIDR  parseCIDR                                              *)
(*   SpecLookup     isDatacenterIP over the table built by initRanges      *)
(*   SpecLinear     the tracker's mousemove listener and isLinearMovement  *)
(*   SpecWindow     the mousemove listener over a long visit               *)
(*   SpecPure       the three exported functions called repeatedly         *)
(*   SpecTrack      handleEngagementTrack over the Project and Visit rows  *)
(*   SpecVersions   the earlier and the later classifyVisitor              *)
(*   SpecJitter     the detector on a pointer that jitters                 *)
(*   SpecBeacon     the tracker's beacons of one visitor and their upserts *)
(*   SpecSnapshot   the merchant's actions on the snapshots of a product   *)
(***************************************************************************)
EXTENDS Integers, Sequences, FiniteSets, TLC

VARIABLES
    data,            \* the signal bundle handed to the two pure functions
    visitorType,     \* result of classifyVisitor ("PENDING" before the call)
    earlierType,     \* result of the earlier classifyVisitor ("PENDING" before)
    botScore,        \* result of calculateBotScore (0 before the call)
    cidr,            \* the CIDR string handed to parseCIDR
    range,           \* result of parseCIDR (NULL before the call)
    probe,           \* how the input of parseCIDR / isDatacenterIP was drawn
    clientIP,        \* the address string handed to isDatacenterIP (or NoIP)
    datacenterCheck, \* result of the lookup (NULL before the call)
    DATACENTER_RANGES, \* the module-level range table
    mouseMovements,  \* tracker state.mouseMovements
    mouseMovementCount, \* tracker state.mouseMovementCount
    hasMouseMoved,   \* tracker state.hasMouseMoved
    kinks,           \* number of direction changes the pointer made so far
    arrivals,        \* every mousemove position in arrival order (history)
    linearMovement,  \* result of isLinearMovement in buildPayload
    now,             \* Date.now() in the visitor's browser
    state,           \* the other fields of the tracker's state object
    results,         \* the calls of the pure functions made so far (history)
    project,         \* the Project row of the tracked product
    visits,          \* the Visit rows of the project, by sessionId
    requests,        \* the engagement-track requests received, in arrival order
    snapshots,       \* the Snapshot rows of the project
    snapshotIds,     \* the number of Snapshot ids handed out so far
    reply,           \* the merchant's last action and the status it returned
    called           \* the functions applied so far

classifyVars == <<data, visitorType, earlierType, botScore>>
cidrVars     == <<cidr, range>>
lookupVars   == <<clientIP, datacenterCheck, DATACENTER_RANGES>>
pageVars     == <<now, state>>
linearVars   == <<mouseMovements, mouseMovementCount, hasMouseMoved, kinks,
                  arrivals, linearMovement, pageVars>>
snapshotVars == <<snapshots, snapshotIds, reply>>
serverVars   == <<results, project, visits, requests, snapshotVars>>
vars == <<classifyVars, probe, cidrVars, lookupVars, linearVars, called,
          serverVars>>

\* JavaScript's null, where a record is expected
NULL == [null |-> TRUE]

(***************************************************************************)
(* Visitor classifier (the datacenter-aware version).                      *)
(***************************************************************************)
MIN_TIME_FOR_REAL == 5000
MIN_SCROLL_FOR_ENGAGED == 10
BOT_SIGNAL_THRESHOLD == 2

BoolToInt(b) == IF b THEN 1 ELSE 0

\* [ ... ].filter(Boolean).length
botSignals(d) ==
    BoolToInt(d.isWebdriver)
  + BoolToInt(d.suspiciousUA)
  + BoolToInt(~d.hasMouseMoved /\ ~d.hasTouched)
  + BoolToInt(d.linearMovement)
  + BoolToInt(d.datacenterIP)

classifyVisitor_StrictThreshold(d) ==
    IF botSignals(d) > BOT_SIGNAL_THRESHOLD THEN "BOT"
    ELSE IF d.timeOnPage < MIN_TIME_FOR_REAL THEN "ZOMBIE"
    ELSE IF ~d.hasScrolled /\ ~d.hasMouseMoved /\ ~d.hasTouched /\ ~d.hasKeyPressed
         THEN "ZOMBIE"
    ELSE "REAL"

classifyVisitor_DwellInclusive(d) ==
    IF botSignals(d) >= BOT_SIGNAL_THRESHOLD THEN "BOT"
    ELSE IF d.timeOnPage <= MIN_TIME_FOR_REAL THEN "ZOMBIE"
    ELSE IF ~d.hasScrolled /\ ~d.hasMouseMoved /\ ~d.hasTouched /\ ~d.hasKeyPressed
         THEN "ZOMBIE"
    ELSE "REAL"

\* linearMovement treated as decisive on its own
classifyVisitor_LinearDecides(d) ==
    IF botSignals(d) >= BOT_SIGNAL_THRESHOLD \/ d.linearMovement THEN "BOT"
    ELSE IF d.timeOnPage < MIN_TIME_FOR_REAL THEN "ZOMBIE"
    ELSE IF ~d.hasScrolled /\ ~d.hasMouseMoved /\ ~d.hasTouched /\ ~d.hasKeyPressed
         THEN "ZOMBIE"
    ELSE "REAL"

\* a datacenter address treated as decisive on its own
classifyVisitor_DatacenterDecides(d) ==
    IF botSignals(d) >= BOT_SIGNAL_THRESHOLD \/ d.datacenterIP THEN "BOT"
    ELSE IF d.timeOnPage < MIN_TIME_FOR_REAL THEN "ZOMBIE"
    ELSE IF ~d.hasScrolled /\ ~d.hasMouseMoved /\ ~d.hasTouched /\ ~d.hasKeyPressed
         THEN "ZOMBIE"
    ELSE "REAL"

\* a scroll counted as interaction only from MIN_SCROLL_FOR_ENGAGED on
classifyVisitor_ScrollEngaged(d) ==
    IF botSignals(d) >= BOT_SIGNAL_THRESHOLD THEN "BOT"
    ELSE IF d.timeOnPage < MIN_TIME_FOR_REAL THEN "ZOMBIE"
    ELSE IF /\ ~(d.hasScrolled /\ d.scrollDepth >= MIN_SCROLL_FOR_ENGAGED)
            /\ ~d.hasMouseMoved /\ ~d.hasTouched /\ ~d.hasKeyPressed
         THEN "ZOMBIE"
    ELSE "REAL"

classifyVisitor(d) ==
    IF botSignals(d) >= BOT_SIGNAL_THRESHOLD THEN "BOT"
    ELSE IF d.timeOnPage < MIN_TIME_FOR_REAL THEN "ZOMBIE"
    ELSE IF ~d.hasScrolled /\ ~d.hasMouseMoved /\ ~d.hasTouched /\ ~d.hasKeyPressed
         THEN "ZOMBIE"
    ELSE "REAL"

(***************************************************************************)
(* The earlier visitor classifier (api.track.tsx), without the datacenter  *)
(* signal.  Its three thresholds have the values of the later version.     *)
(***************************************************************************)
\* [ ... ].filter(Boolean).length, four entries
botSignalsEarlier(d) ==
    BoolToInt(d.isWebdriver)
  + BoolToInt(d.suspiciousUA)
  + BoolToInt(~d.hasMouseMoved /\ ~d.hasTouched)
  + BoolToInt(d.linearMovement)

\* the earlier classifier without its linearMovement entry
classifyVisitorEarlier_ThreeSignals(d) ==
    IF botSignalsEarlier(d) - BoolToInt(d.linearMovement) >= BOT_SIGNAL_THRESHOLD
    THEN "BOT"
    ELSE IF d.timeOnPage < MIN_TIME_FOR_REAL THEN "ZOMBIE"
    ELSE IF ~d.hasScrolled /\ ~d.hasMouseMoved /\ ~d.hasTouched /\ ~d.hasKeyPressed
         THEN "ZOMBIE"
    ELSE "REAL"

classifyVisitorEarlier(d) ==
    IF botSignalsEarlier(d) >= BOT_SIGNAL_THRESHOLD THEN "BOT"
    ELSE IF d.timeOnPage < MIN_TIME_FOR_REAL THEN "ZOMBIE"
    ELSE IF ~d.hasScrolled /\ ~d.hasMouseMoved /\ ~d.hasTouched /\ ~d.hasKeyPressed
         THEN "ZOMBIE"
    ELSE "REAL"

(***************************************************************************)
(* Bot score calculator.                                                   *)
(***************************************************************************)
Min(a, b) == IF a <= b THEN a ELSE b

\* the chain written as three independent ifs: the buckets pile up
timeWeight_Cumulative(t) ==
    (IF t < 1000 THEN 15 ELSE 0) + (IF t < 2000 THEN 10 ELSE 0)
  + (IF t < 3000 THEN 5 ELSE 0)

\* the if / else-if chain on timeOnPage
timeWeight(t) ==
    IF t < 1000 THEN 15
    ELSE IF t < 2000 THEN 10
    ELSE IF t < 3000 THEN 5
    ELSE 0

\* score before the final Math.min
rawScore(s) ==
    (IF s.isWebdriver THEN 40 ELSE 0)
  + (IF s.suspiciousUA THEN 30 ELSE 0)
  + (IF s.datacenterIP THEN 25 ELSE 0)
  + (IF s.linearMovement THEN 20 ELSE 0)
  + (IF ~s.hasMouseMoved /\ ~s.hasTouched THEN 15 ELSE 0)
  + (IF ~s.hasScrolled THEN 10 ELSE 0)
  + (IF ~s.hasKeyPressed THEN 5 ELSE 0)
  + timeWeight(s.timeOnPage)

calculateBotScore_NoClamp(s) == rawScore(s)

\* the clamp written as a wrap-around
calculateBotScore_Wrap(s) == rawScore(s) % 101

\* a score that is the verdict in disguise
calculateBotScore_FromVerdict(s) ==
    IF botSignals(s) >= BOT_SIGNAL_THRESHOLD THEN 100 ELSE 0

calculateBotScore(s) == Min(rawScore(s), 100)

(***************************************************************************)
(* Inputs of SpecClassify: every combination of the nine booleans, dwell   *)
(* times on both sides of every threshold of the two functions, and        *)
(* scroll depths on both sides of MIN_SCROLL_FOR_ENGAGED.                  *)
(***************************************************************************)
TimeValues == {0, 999, 1000, 1999, 2000, 2999, 3000, 4999, 5000, 5001}
ScrollValues == {0, 9, 10, 100}

SignalBundles ==
    [timeOnPage : TimeValues, scrollDepth : ScrollValues,
     hasMouseMoved : BOOLEAN, hasScrolled : BOOLEAN, hasKeyPressed : BOOLEAN,
     hasTouched : BOOLEAN, isWebdriver : BOOLEAN, suspiciousUA : BOOLEAN,
     linearMovement : BOOLEAN, datacenterIP : BOOLEAN]

IdleBundle ==
    [timeOnPage |-> 0, scrollDepth |-> 0,
     hasMouseMoved |-> FALSE, hasScrolled |-> FALSE, hasKeyPressed |-> FALSE,
     hasTouched |-> FALSE, isWebdriver |-> FALSE, suspiciousUA |-> FALSE,
     linearMovement |-> FALSE, datacenterIP |-> FALSE]

ClassifyIdle ==
    /\ data = IdleBundle
    /\ visitorType = "PENDING"
    /\ earlierType = "PENDING"
    /\ botScore = 0

CidrIdle == cidr = "" /\ range = NULL

LookupIdle ==
    /\ clientIP = ""
    /\ datacenterCheck = NULL
    /\ DATACENTER_RANGES = <<>>

\* the tracker's state object as the script creates it at startTime, without
\* the fields that have a variable of their own
FreshState(startTime) ==
    [startTime |-> startTime, hasScrolled |-> FALSE, hasKeyPressed |-> FALSE,
     hasTouched |-> FALSE, maxScrollDepth |-> 0, keyPressCount |-> 0,
     touchEventCount |-> 0]

PageIdle == now = 0 /\ state = FreshState(0)

LinearIdle ==
    /\ mouseMovements = <<>>
    /\ mouseMovementCount = 0
    /\ hasMouseMoved = FALSE
    /\ kinks = 0
    /\ arrivals = <<>>
    /\ linearMovement = FALSE
    /\ PageIdle

SnapshotIdle == snapshots = {} /\ snapshotIds = 0 /\ reply = NULL

ServerIdle ==
    /\ results = {}
    /\ project = NULL
    /\ visits = <<>>
    /\ requests = <<>>
    /\ SnapshotIdle

InitClassify ==
    /\ data \in SignalBundles
    /\ visitorType = "PENDING"
    /\ earlierType = "PENDING"
    /\ botScore = 0
    /\ called = {}
    /\ probe = NULL
    /\ CidrIdle /\ LookupIdle /\ LinearIdle /\ ServerIdle

CallClassifyVisitor ==
    /\ "classifyVisitor" \notin called
    /\ visitorType' = classifyVisitor(data)
    /\ called' = called \cup {"classifyVisitor"}
    /\ UNCHANGED <<data, earlierType, botScore, probe, cidrVars, lookupVars,
                   linearVars, serverVars>>

CallCalculateBotScore ==
    /\ "calculateBotScore" \notin called
    /\ botScore' = calculateBotScore(data)
    /\ called' = called \cup {"calculateBotScore"}
    /\ UNCHANGED <<data, visitorType, earlierType, probe, cidrVars, lookupVars,
                   linearVars, serverVars>>

NextClassify == CallClassifyVisitor \/ CallCalculateBotScore

SpecClassify == InitClassify /\ [][NextClassify]_vars

(***************************************************************************)
(* Claims about classifyVisitor and calculateBotScore (SpecClassify).      *)
(***************************************************************************)
Classified == "classifyVisitor" \in called
Scored == "calculateBotScore" \in called

\* the five bot signals of the claim, as a set of the names that are true
TrueBotSignals(d) ==
    {n \in {"isWebdriver", "suspiciousUA", "linearMovement", "datacenterIP"} : d[n]}
    \cup (IF ~d.hasMouseMoved /\ ~d.hasTouched THEN {"noPointer"} ELSE {})

AnyInteraction(d) ==
    d.hasScrolled \/ d.hasMouseMoved \/ d.hasTouched \/ d.hasKeyPressed

\* C1: the verdict is BOT if and only if at least 2 of the five bot signals
\* are true, whatever timeOnPage, scrollDepth, hasScrolled and hasKeyPressed.
C1_BotIffTwoSignals ==
    Classified => (visitorType = "BOT" <=> Cardinality(TrueBotSignals(data)) >= 2)

\* C1 witness: exactly two bot signals with otherwise good engagement, BOT.
C1_Witness ==
    /\ Classified
    /\ Cardinality(TrueBotSignals(data)) = 2
    /\ data.timeOnPage >= 5000 /\ data.hasScrolled /\ data.hasKeyPressed
    /\ visitorType = "BOT"

\* C2: with fewer than 2 bot signals the verdict is ZOMBIE when timeOnPage <
\* 5000, ZOMBIE when timeOnPage >= 5000 without any interaction, and REAL in
\* every remaining case.
C2_ZombieOrReal ==
    (Classified /\ Cardinality(TrueBotSignals(data)) < 2) =>
        visitorType = (IF data.timeOnPage < 5000 THEN "ZOMBIE"
                       ELSE IF ~AnyInteraction(data) THEN "ZOMBIE"
                       ELSE "REAL")

\* C2 witness: timeOnPage exactly 5000 with an interaction is REAL.
C2_Witness ==
    /\ Classified
    /\ Cardinality(TrueBotSignals(data)) < 2
    /\ data.timeOnPage = 5000 /\ AnyInteraction(data)
    /\ visitorType = "REAL"

\* the weighted sum of the claim, one time weight at most
C6_Sum(d) ==
    40 * BoolToInt(d.isWebdriver) + 30 * BoolToInt(d.suspiciousUA)
  + 25 * BoolToInt(d.datacenterIP) + 20 * BoolToInt(d.linearMovement)
  + 15 * BoolToInt(~(d.hasMouseMoved \/ d.hasTouched))
  + 10 * BoolToInt(~d.hasScrolled) + 5 * BoolToInt(~d.hasKeyPressed)
  + (CASE d.timeOnPage < 1000 -> 15
       [] d.timeOnPage >= 1000 /\ d.timeOnPage < 2000 -> 10
       [] d.timeOnPage >= 2000 /\ d.timeOnPage < 3000 -> 5
       [] d.timeOnPage >= 3000 -> 0)

\* C6: the score is min(100, S), S the weighted sum with exactly one time
\* weight.
C6_ScoreIsClampedSum ==
    Scored => botScore = (IF C6_Sum(data) > 100 THEN 100 ELSE C6_Sum(data))

\* C6 witness: a dwell time in the second bucket, scored below the clamp.
C6_Witness ==
    /\ Scored
    /\ data.timeOnPage >= 1000 /\ data.timeOnPage < 2000
    /\ botScore = C6_Sum(data) /\ botScore < 100

\* C7: the score is an integer in 0..100, and exactly 100 when isWebdriver,
\* suspiciousUA, datacenterIP and linearMovement are all true at timeOnPage 0.
C7_ScoreRange ==
    Scored =>
        /\ botScore \in 0..100
        /\ (/\ data.isWebdriver /\ data.suspiciousUA
            /\ data.datacenterIP /\ data.linearMovement
            /\ data.timeOnPage = 0) => botScore = 100

\* C7 witness: the four strong signals at timeOnPage 0, clamped to 100.
C7_Witness ==
    /\ Scored
    /\ data.isWebdriver /\ data.suspiciousUA
    /\ data.datacenterIP /\ data.linearMovement
    /\ data.timeOnPage = 0
    /\ botScore = 100

BotFlags == {"isWebdriver", "suspiciousUA", "datacenterIP", "linearMovement"}

\* C8: turning one of isWebdriver, suspiciousUA, datacenterIP, linearMovement
\* from false to true, every other field fixed, never lowers the score.
C8_Monotone ==
    Scored =>
        \A f \in BotFlags :
            ~data[f] => calculateBotScore([data EXCEPT ![f] = TRUE]) >= botScore

\* C8 witness: a bundle already near the clamp, where a flag can still be set.
C8_Witness ==
    /\ Scored
    /\ botScore >= 90
    /\ \E f \in BotFlags :
          ~data[f] /\ calculateBotScore([data EXCEPT ![f] = TRUE]) = 100

\* C12: linearMovement alone never gives BOT: a BOT verdict with
\* linearMovement true has another bot signal true as well, and a bundle
\* whose only true bot signal is linearMovement is ZOMBIE or REAL.
C12_LinearNeverSufficient ==
    Classified =>
        /\ (visitorType = "BOT" /\ data.linearMovement)
              => TrueBotSignals(data) \ {"linearMovement"} # {}
        /\ TrueBotSignals(data) = {"linearMovement"}
              => visitorType \in {"ZOMBIE", "REAL"}

\* C12 witness: linearMovement the only bot signal on an engaged visit of
\* 5000 ms, classified REAL.
C12_Witness ==
    /\ Classified
    /\ TrueBotSignals(data) = {"linearMovement"}
    /\ data.timeOnPage >= 5000
    /\ visitorType = "REAL"

\* the scores calculateBotScore gives to the bundles classifyVisitor labels
\* BOT, and to those it labels REAL
C16_BotScores ==
    {calculateBotScore(d) : d \in {b \in SignalBundles : classifyVisitor(b) = "BOT"}}

C16_RealScores ==
    {calculateBotScore(d) : d \in {b \in SignalBundles : classifyVisitor(b) = "REAL"}}

\* C16: the score does not determine the verdict: whatever bundle was just
\* scored and classified, some score is given both to a BOT bundle and to a
\* REAL bundle, and some REAL bundle scores strictly higher than some BOT
\* bundle.
C16_ScoreDoesNotDecide ==
    (Classified /\ Scored) =>
        /\ C16_BotScores \cap C16_RealScores # {}
        /\ \E r \in C16_RealScores : \E b \in C16_BotScores : r > b

\* C16 witness: a bundle classified REAL whose score is also the score of a
\* BOT bundle and strictly above the score of another BOT bundle.
C16_Witness ==
    /\ Classified /\ Scored
    /\ visitorType = "REAL"
    /\ botScore \in C16_BotScores
    /\ \E b \in C16_BotScores : botScore > b

(***************************************************************************)
(* Strings.  A string is a sequence of characters; Char(s, i) is the       *)
(* one-character string at position i.                                     *)
(***************************************************************************)
Char(s, i) == SubSeq(s, i, i)

Digits == "0123456789"

IsDigit(c) == \E i \in 1..Len(Digits) : Char(Digits, i) = c

DigitVal(c) == (CHOOSE i \in 1..Len(Digits) : Char(Digits, i) = c) - 1

\* the white space String.prototype.trim and parseInt skip
IsWhiteSpace(c) == c = " "

\* String.prototype.split(sep) for a one-character separator
RECURSIVE split(_, _)
split(s, sep) ==
    LET hits == {i \in 1..Len(s) : Char(s, i) = sep} IN
    IF hits = {} THEN <<s>>
    ELSE LET i == CHOOSE j \in hits : \A k \in hits : j <= k IN
         <<SubSeq(s, 1, i - 1)>> \o split(SubSeq(s, i + 1, Len(s)), sep)

\* JavaScript's NaN, as the result of parseInt
NaN == [nan |-> TRUE]

\* number of leading characters of s that satisfy IsWhiteSpace
RECURSIVE LeadingWhiteSpace(_)
LeadingWhiteSpace(s) ==
    IF Len(s) > 0 /\ IsWhiteSpace(Char(s, 1))
    THEN 1 + LeadingWhiteSpace(SubSeq(s, 2, Len(s)))
    ELSE 0

\* value of the longest prefix of decimal digits of s, continuing from acc
RECURSIVE DigitPrefixValue(_, _)
DigitPrefixValue(s, acc) ==
    IF Len(s) > 0 /\ IsDigit(Char(s, 1))
    THEN DigitPrefixValue(SubSeq(s, 2, Len(s)), acc * 10 + DigitVal(Char(s, 1)))
    ELSE acc

\* parseInt(s, 10): skips leading white space, takes an optional sign, then
\* the longest run of decimal digits, and ignores whatever follows; NaN when
\* there is no digit at that place.  (-0 compares as 0.)
parseInt(s) ==
    LET t == SubSeq(s, LeadingWhiteSpace(s) + 1, Len(s))
        signed == Len(t) > 0 /\ Char(t, 1) \in {"+", "-"}
        u == IF signed THEN SubSeq(t, 2, Len(t)) ELSE t
        mag == DigitPrefixValue(u, 0)
    IN IF Len(u) = 0 \/ ~IsDigit(Char(u, 1)) THEN NaN
       ELSE [nan |-> FALSE,
             value |-> IF signed /\ Char(t, 1) = "-" THEN 0 - mag ELSE mag]

(***************************************************************************)
(* JavaScript numbers.  The addresses and range bounds are integers of up  *)
(* to 33 bits, held exactly by a JavaScript number; here such a number n   *)
(* is the record [hi, lo] with n = hi * 2^16 + lo and 0 <= lo < 2^16 (hi   *)
(* is negative for a negative n).  The bitwise operators work on the       *)
(* number converted to a signed 32-bit integer (ToInt32) and take their    *)
(* shift count modulo 32.                                                  *)
(***************************************************************************)
Two16 == 2 ^ 16

Num(hi, lo) == [hi |-> hi, lo |-> lo]

NumAdd(x, y) ==
    LET lo == x.lo + y.lo IN Num(x.hi + y.hi + (lo \div Two16), lo % Two16)

NumLE(x, y) == x.hi < y.hi \/ (x.hi = y.hi /\ x.lo <= y.lo)

NumMinusOne == Num(0 - 1, Two16 - 1)

\* result * 256 + num
TimesAdd256(result, num) ==
    LET lo == result.lo * 256 + num IN
    Num(result.hi * 256 + (lo \div Two16), lo % Two16)

\* the number as a signed 32-bit integer
ToInt32(x) == Num(((x.hi + 2 ^ 15) % Two16) - 2 ^ 15, x.lo)

\* x & (~0 << n): the low (n mod 32) bits of the 32-bit pattern cleared, the
\* result a signed 32-bit integer
AndShiftedOnes(x, n) ==
    LET k == n % 32
        v == ToInt32(x)
    IN IF k <= 16 THEN Num(v.hi, v.lo - (v.lo % (2 ^ k)))
       ELSE Num(v.hi - (v.hi % (2 ^ (k - 16))), 0)

\* 1 << n, a signed 32-bit integer
OneShifted(n) ==
    LET k == n % 32 IN
    IF k < 16 THEN Num(0, 2 ^ k) ELSE ToInt32(Num(2 ^ (k - 16), 0))

(***************************************************************************)
(* Datacenter IP detection.                                                *)
(***************************************************************************)
\* the loop of ipToNumber over the parts left, result so far in result
RECURSIVE ipToNumberLoop(_, _)
ipToNumberLoop(parts, result) ==
    IF parts = <<>> THEN result
    ELSE LET num == parseInt(Head(parts)) IN
         IF num = NaN \/ num.value < 0 \/ num.value > 255 THEN NULL
         ELSE ipToNumberLoop(Tail(parts), TimesAdd256(result, num.value))

ipToNumber(ip) ==
    LET parts == split(ip, ".") IN
    IF Len(parts) # 4 THEN NULL ELSE ipToNumberLoop(parts, Num(0, 0))

parseCIDR(c) ==
    LET fields == split(c, "/")
        ip == fields[1]
        maskStr == IF Len(fields) >= 2 THEN fields[2] ELSE ""
        ipNum == ipToNumber(ip)
        mask == parseInt(maskStr)
        hostBits == 32 - mask.value
        start == AndShiftedOnes(ipNum, hostBits)
        end == NumAdd(NumAdd(start, OneShifted(hostBits)), NumMinusOne)
    IN IF ip = "" \/ maskStr = "" THEN NULL
       ELSE IF ipNum = NULL THEN NULL
       ELSE IF mask = NaN \/ mask.value < 0 \/ mask.value > 32 THEN NULL
       ELSE [start |-> start, end |-> end]

(***************************************************************************)
(* The literal CIDR lists of initRanges, by provider.                      *)
(***************************************************************************)
\* AWS (lines 44-54)
awsRanges ==
    << "3.0.0.0/8", "13.32.0.0/12", "18.64.0.0/10", "35.80.0.0/12",
       "44.192.0.0/10", "52.0.0.0/8", "54.64.0.0/10", "99.77.0.0/16",
       "100.20.0.0/14", "108.128.0.0/11", "176.32.96.0/19" >>

\* GCP (lines 59-76)
gcpRanges ==
    << "34.64.0.0/10", "35.184.0.0/13", "35.192.0.0/12", "35.208.0.0/12",
       "35.224.0.0/12", "35.240.0.0/13", "104.154.0.0/15", "104.196.0.0/14",
       "107.167.160.0/19", "107.178.192.0/18", "108.59.80.0/20",
       "130.211.0.0/16", "146.148.0.0/16", "162.216.148.0/22",
       "162.222.176.0/20", "173.255.112.0/20", "199.192.112.0/20",
       "199.223.232.0/21" >>

\* Azure (lines 81-97)
azureRanges ==
    << "13.64.0.0/10", "20.0.0.0/8", "23.96.0.0/13", "40.64.0.0/10",
       "51.4.0.0/14", "51.8.0.0/14", "51.104.0.0/13", "51.124.0.0/14",
       "52.96.0.0/12", "52.112.0.0/12", "52.160.0.0/11", "65.52.0.0/14",
       "70.37.0.0/17", "70.37.128.0/17", "104.40.0.0/13", "168.61.0.0/16",
       "168.62.0.0/15" >>

\* DigitalOcean (lines 102-133)
digitalOceanRanges ==
    << "64.225.0.0/16", "67.205.128.0/17", "68.183.0.0/16",
       "104.131.0.0/16", "104.236.0.0/16", "137.184.0.0/14",
       "138.68.0.0/15", "138.197.0.0/16", "139.59.0.0/16", "142.93.0.0/16",
       "143.110.0.0/16", "143.198.0.0/16", "144.126.192.0/18",
       "157.230.0.0/15", "159.65.0.0/16", "159.89.0.0/16", "159.203.0.0/16",
       "161.35.0.0/16", "162.243.0.0/16", "163.47.8.0/21", "165.22.0.0/15",
       "165.227.0.0/16", "167.99.0.0/16", "167.172.0.0/14",
       "174.138.0.0/16", "178.128.0.0/14", "188.166.0.0/15",
       "192.81.208.0/20", "192.241.128.0/17", "198.199.64.0/18",
       "206.189.0.0/16", "207.154.192.0/18" >>

\* Linode (lines 138-156)
linodeRanges ==
    << "45.33.0.0/16", "45.56.64.0/18", "45.79.0.0/16", "50.116.0.0/18",
       "66.175.208.0/20", "66.228.32.0/19", "69.164.192.0/18",
       "72.14.176.0/20", "74.207.224.0/19", "96.126.96.0/19",
       "97.107.128.0/17", "139.162.0.0/16", "170.187.128.0/17",
       "172.104.0.0/15", "173.255.192.0/18", "178.79.128.0/17",
       "192.155.80.0/20", "198.58.96.0/19", "212.71.232.0/21" >>

\* Vultr (lines 161-180)
vultrRanges ==
    << "45.32.0.0/15", "45.63.0.0/16", "45.76.0.0/15", "64.156.0.0/14",
       "66.42.32.0/19", "78.141.192.0/18", "95.179.128.0/17",
       "104.156.224.0/19", "108.61.64.0/18", "136.244.64.0/18",
       "140.82.0.0/17", "144.202.0.0/16", "149.28.0.0/16",
       "155.138.128.0/17", "185.231.80.0/22", "192.248.144.0/20",
       "207.148.64.0/18", "208.167.224.0/19", "216.128.128.0/17",
       "217.163.0.0/17" >>

\* OVH (lines 185-225)
ovhRanges ==
    << "5.135.0.0/16", "5.196.0.0/14", "37.59.0.0/16", "37.187.0.0/16",
       "46.105.0.0/16", "51.38.0.0/15", "51.68.0.0/14", "51.75.0.0/16",
       "51.77.0.0/16", "51.79.0.0/16", "51.89.0.0/16", "51.91.0.0/16",
       "51.210.0.0/15", "54.36.0.0/14", "54.38.0.0/15", "79.137.0.0/17",
       "87.98.128.0/17", "91.121.0.0/16", "92.222.0.0/15", "135.125.0.0/16",
       "137.74.0.0/16", "139.99.0.0/16", "142.44.128.0/17",
       "145.239.0.0/16", "147.135.0.0/16", "149.56.0.0/16", "151.80.0.0/14",
       "158.69.0.0/16", "167.114.0.0/16", "176.31.0.0/16", "178.32.0.0/15",
       "185.228.16.0/22", "188.165.0.0/16", "192.95.0.0/16",
       "193.70.0.0/15", "198.27.64.0/18", "198.50.128.0/17",
       "198.100.144.0/20", "213.32.0.0/16", "213.186.32.0/19",
       "213.251.128.0/17" >>

\* Hetzner (lines 230-259)
hetznerRanges ==
    << "5.9.0.0/16", "23.88.0.0/15", "49.12.0.0/14", "65.108.0.0/15",
       "65.21.0.0/16", "78.46.0.0/15", "85.10.192.0/18", "88.99.0.0/16",
       "88.198.0.0/16", "94.130.0.0/16", "95.216.0.0/15", "116.202.0.0/15",
       "116.203.0.0/16", "128.140.0.0/15", "135.181.0.0/16",
       "136.243.0.0/16", "138.201.0.0/16", "142.132.128.0/17",
       "144.76.0.0/16", "148.251.0.0/16", "157.90.0.0/16", "159.69.0.0/16",
       "167.233.0.0/16", "168.119.0.0/16", "176.9.0.0/16", "178.63.0.0/16",
       "188.40.0.0/16", "195.201.0.0/16", "213.133.96.0/19",
       "213.239.192.0/18" >>

\* ...list.map((r) => ({ cidr: r, provider }))
WithProvider(list, provider) ==
    [i \in 1..Len(list) |-> [cidr |-> list[i], provider |-> provider]]

allRanges ==
    WithProvider(awsRanges, "AWS") \o WithProvider(gcpRanges, "GCP")
    \o WithProvider(azureRanges, "Azure")
    \o WithProvider(digitalOceanRanges, "DigitalOcean")
    \o WithProvider(linodeRanges, "Linode") \o WithProvider(vultrRanges, "Vultr")
    \o WithProvider(ovhRanges, "OVH") \o WithProvider(hetznerRanges, "Hetzner")

\* the for loop of initRanges: every literal parsed, in list order
ParsedRanges ==
    [i \in 1..Len(allRanges) |->
        [range |-> parseCIDR(allRanges[i].cidr), provider |-> allRanges[i].provider]]

\* if (range)
IsParsed(e) == e.range # NULL

\* DATACENTER_RANGES.push({ ...range, provider }) for the parses kept
Pushed(kept) ==
    [i \in 1..Len(kept) |->
        [start |-> kept[i].range.start, end |-> kept[i].range.end,
         provider |-> kept[i].provider]]

\* a.start - b.start < 0
StartsBefore(a, b) == ~NumLE(b.start, a.start)

\* place of entry i of list after list.sort((a, b) => a.start - b.start):
\* behind every entry that starts before it and every earlier entry with the
\* same start (Array.prototype.sort is stable)
SortedPlace(list, i) ==
    1 + Cardinality({j \in 1..Len(list) :
                        \/ StartsBefore(list[j], list[i])
                        \/ (j < i /\ list[j].start = list[i].start)})

\* list with every entry at its sorted place
Placed(list, place) ==
    [k \in 1..Len(list) |-> list[CHOOSE i \in 1..Len(list) : place[i] = k]]

\* the table left in the order of the lists
SortByStart_Unsorted(list) == list

\* the table sorted by descending start
SortByStart_Descending(list) ==
    Placed(list, [i \in 1..Len(list) |-> Len(list) + 1 - SortedPlace(list, i)])

\* DATACENTER_RANGES.sort((a, b) => a.start - b.start)
SortByStart(list) == Placed(list, [i \in 1..Len(list) |-> SortedPlace(list, i)])

\* the table initRanges() leaves behind at module load
initRanges == SortByStart(Pushed(SelectSeq(ParsedRanges, IsParsed)))

NotDatacenter == [isDatacenter |-> FALSE, provider |-> "null"]

\* the range test reaching one address past the end
InRange_PastEnd(ipNum, r) ==
    NumLE(r.start, ipNum) /\ NumLE(ipNum, NumAdd(r.end, Num(0, 1)))

\* ipNum >= range.start && ipNum <= range.end
InRange(ipNum, r) == NumLE(r.start, ipNum) /\ NumLE(ipNum, r.end)

\* the for loop of isDatacenterIP: the first entry of table, in order, that
\* holds ipNum
ScanRanges(table, ipNum) ==
    LET hits == {i \in 1..Len(table) : InRange(ipNum, table[i])} IN
    IF hits = {} THEN NotDatacenter
    ELSE [isDatacenter |-> TRUE,
          provider |-> table[CHOOSE i \in hits : \A j \in hits : i <= j].provider]

\* isDatacenterIP, reading the module-level table
isDatacenterIP(ip) ==
    LET ipNum == ipToNumber(ip) IN
    IF ipNum = NULL THEN NotDatacenter ELSE ScanRanges(DATACENTER_RANGES, ipNum)

(***************************************************************************)
(* SpecParseCIDR: parseCIDR applied to the CIDR strings a.b.c.d/p drawn    *)
(* from octets on both sides of 128 and every prefix length 0..32.         *)
(***************************************************************************)
FirstOctets == {0, 3, 127, 128, 176, 255}
OtherOctets == {0, 32, 96, 255}
PrefixLengths == 0..32

\* the decimal text of the octets and of the prefix length
FormatIP(a, b, c, d) ==
    ToString(a) \o "." \o ToString(b) \o "." \o ToString(c) \o "." \o ToString(d)

FormatCIDR(q) == FormatIP(q.a, q.b, q.c, q.d) \o "/" \o ToString(q.p)

InitParseCIDR ==
    /\ probe \in [a : FirstOctets, b : OtherOctets, c : OtherOctets,
                  d : OtherOctets, p : PrefixLengths]
    /\ cidr = FormatCIDR(probe)
    /\ range = NULL
    /\ called = {}
    /\ ClassifyIdle /\ LookupIdle /\ LinearIdle /\ ServerIdle

CallParseCIDR ==
    /\ "parseCIDR" \notin called
    /\ range' = parseCIDR(cidr)
    /\ called' = called \cup {"parseCIDR"}
    /\ UNCHANGED <<cidr, probe, classifyVars, lookupVars, linearVars, serverVars>>

NextParseCIDR == CallParseCIDR

SpecParseCIDR == InitParseCIDR /\ [][NextParseCIDR]_vars

(***************************************************************************)
(* Claim about parseCIDR (SpecParseCIDR).                                  *)
(***************************************************************************)
\* the unsigned 32-bit address a.b.c.d with its low (32 - p) bits cleared
C4_Start(q) ==
    LET hostBits == 32 - q.p
        hi == q.a * 256 + q.b
        lo == q.c * 256 + q.d
    IN IF hostBits <= 16 THEN Num(hi, lo - (lo % (2 ^ hostBits)))
       ELSE Num(hi - (hi % (2 ^ (hostBits - 16))), 0)

\* C4_Start(q) + 2^(32 - p) - 1
C4_End(q) ==
    LET hostBits == 32 - q.p
        s == C4_Start(q)
    IN IF hostBits <= 16 THEN Num(s.hi, s.lo + 2 ^ hostBits - 1)
       ELSE Num(s.hi + 2 ^ (hostBits - 16) - 1, Two16 - 1)

\* C4: for every a.b.c.d/p with octets in 0..255 and p in 0..32, parseCIDR
\* returns start = the address with its low (32-p) bits cleared and
\* end = start + 2^(32-p) - 1, both unsigned 32-bit integers, so that
\* 0 <= start <= end <= 2^32 - 1.
C4_ParseCIDRUnsigned ==
    "parseCIDR" \in called =>
        /\ range # NULL
        /\ range.start = C4_Start(probe)
        /\ range.end = C4_End(probe)
        /\ NumLE(Num(0, 0), range.start)
        /\ NumLE(range.start, range.end)
        /\ NumLE(range.end, Num(Two16 - 1, Two16 - 1))

(***************************************************************************)
(* SpecLookup: isDatacenterIP applied to the lowest and the highest        *)
(* address of every CIDR literal of the lists, to the address just below   *)
(* and just above every literal's block, and to address strings put        *)
(* together from well-formed and malformed parts; and the handler's        *)
(* datacenter check, which also sees requests without a client IP.         *)
(***************************************************************************)
MaxParts == 4

\* getClientIP's null: no header named a client
NoIP == "<null>"

\* parts of an address string: octets in and out of range, an empty part,
\* digits followed or preceded by other characters, an IPv6 group
Parts == {"3", "0", "255", "999", "", "3x", "not", "3::1"}

RECURSIVE Join(_, _)
Join(parts, sep) ==
    IF Len(parts) = 1 THEN parts[1]
    ELSE parts[1] \o sep \o Join(Tail(parts), sep)

\* the decimal number a string of digits, and nothing else, writes
DecimalValue(s) ==
    IF Len(s) > 0 /\ \A i \in 1..Len(s) : IsDigit(Char(s, i))
    THEN [nan |-> FALSE, value |-> DigitPrefixValue(s, 0)]
    ELSE NaN

\* the octets and the prefix length a CIDR literal of the lists writes
LiteralFields(c) ==
    LET f == split(c, "/")
        o == split(f[1], ".")
    IN [a |-> DecimalValue(o[1]).value, b |-> DecimalValue(o[2]).value,
        c |-> DecimalValue(o[3]).value, d |-> DecimalValue(o[4]).value,
        p |-> DecimalValue(f[2]).value]

\* an unsigned 32-bit address as a dotted quad
FormatNum(n) == FormatIP(n.hi \div 256, n.hi % 256, n.lo \div 256, n.lo % 256)

\* the address string a probe stands for
ProbeIP(q) ==
    CASE q.kind = "low" -> FormatNum(C4_Start(LiteralFields(allRanges[q.idx].cidr)))
      [] q.kind = "high" -> FormatNum(C4_End(LiteralFields(allRanges[q.idx].cidr)))
      [] q.kind = "below" ->
            FormatNum(NumAdd(C4_Start(LiteralFields(allRanges[q.idx].cidr)),
                             NumMinusOne))
      [] q.kind = "above" ->
            FormatNum(NumAdd(C4_End(LiteralFields(allRanges[q.idx].cidr)),
                             Num(0, 1)))
      [] q.kind = "free" -> Join(q.parts, ".")
      [] q.kind = "none" -> NoIP

Probes ==
    [kind : {"low", "high", "below", "above"}, idx : 1..Len(allRanges)]
    \cup [kind : {"free"}, parts : UNION {[1..n -> Parts] : n \in 1..MaxParts}]
    \cup {[kind |-> "none"]}

InitLookup ==
    /\ DATACENTER_RANGES = initRanges
    /\ probe \in Probes
    /\ clientIP = ProbeIP(probe)
    /\ datacenterCheck = NULL
    /\ called = {}
    /\ ClassifyIdle /\ CidrIdle /\ LinearIdle /\ ServerIdle

\* a direct call of the exported function
CallIsDatacenterIP ==
    /\ called = {}
    /\ clientIP # NoIP
    /\ datacenterCheck' = isDatacenterIP(clientIP)
    /\ called' = {"isDatacenterIP"}
    /\ UNCHANGED <<clientIP, DATACENTER_RANGES, probe, classifyVars, cidrVars,
                   linearVars, serverVars>>

\* handleEngagementTrack: clientIP ? isDatacenterIP(clientIP) : {false, null}
HandlerDatacenterCheck ==
    /\ called = {}
    /\ datacenterCheck' = IF clientIP # NoIP /\ clientIP # ""
                          THEN isDatacenterIP(clientIP)
                          ELSE NotDatacenter
    /\ called' = {"handleEngagementTrack"}
    /\ UNCHANGED <<clientIP, DATACENTER_RANGES, probe, classifyVars, cidrVars,
                   linearVars, serverVars>>

NextLookup == CallIsDatacenterIP \/ HandlerDatacenterCheck

SpecLookup == InitLookup /\ [][NextLookup]_vars

(***************************************************************************)
(* Claims about isDatacenterIP (SpecLookup).                               *)
(***************************************************************************)
LookedUp == called # {}

\* C3: for every CIDR literal of the provider lists, the interval's lowest
\* and highest address are reported as datacenter with the provider label of
\* the list the literal belongs to.
C3_TableBoundsClassified ==
    (LookedUp /\ probe.kind \in {"low", "high"}) =>
        datacenterCheck = [isDatacenter |-> TRUE,
                           provider |-> allRanges[probe.idx].provider]

\* a dotted quad of exactly four decimal integers, each in 0..255
C5_WellFormed(ip) ==
    LET parts == split(ip, ".") IN
    /\ Len(parts) = 4
    /\ \A i \in 1..4 : /\ DecimalValue(parts[i]) # NaN
                       /\ DecimalValue(parts[i]).value <= 255

\* C5: every input that is not a well-formed dotted quad (wrong number of
\* parts, an empty part, a part above 255, a part with non-digit characters,
\* the empty string, an IPv6 address), and a request without a client IP, is
\* answered {isDatacenter: false, provider: null}.
C5_MalformedNeverDatacenter ==
    (LookedUp /\ ~C5_WellFormed(clientIP)) => datacenterCheck = NotDatacenter

(***************************************************************************)
(* Tracker: the mousemove listener and the linear-movement detector.       *)
(***************************************************************************)
Abs(n) == IF n < 0 THEN 0 - n ELSE n

Max(a, b) == IF a >= b THEN a ELSE b

\* movements.slice(-20)
LastTwenty(movements) ==
    SubSeq(movements, Max(1, Len(movements) - 19), Len(movements))

\* Math.abs(dx1 * dy2 - dy1 * dx2) for the triplet that ends at sample[i]
cross(sample, i) ==
    LET dx1 == sample[i-1].x - sample[i-2].x
        dy1 == sample[i-1].y - sample[i-2].y
        dx2 == sample[i].x - sample[i-1].x
        dy2 == sample[i].y - sample[i-1].y
    IN Abs(dx1 * dy2 - dy1 * dx2)

\* the loop of isLinearMovement: the triplets with cross < 10
linearCount(sample) ==
    Cardinality({i \in 3..Len(sample) : cross(sample, i) < 10})

\* the verdict taken at 80% or more
isLinearMovement_AtLeast(movements) ==
    IF Len(movements) < 10 THEN FALSE
    ELSE LET sample == LastTwenty(movements) IN
         linearCount(sample) * 10 >= 8 * (Len(sample) - 2)

\* the precondition asking for more than 10 samples
isLinearMovement_MoreThanTen(movements) ==
    IF Len(movements) <= 10 THEN FALSE
    ELSE LET sample == LastTwenty(movements) IN
         linearCount(sample) * 10 > 8 * (Len(sample) - 2)

\* linearCount / (sample.length - 2) > 0.8.  The quotient of two integers
\* below 2^53 is the double nearest to the exact ratio and 0.8 is the double
\* nearest to 8/10, so with at most 18 triplets the comparison of the doubles
\* is the comparison of the exact ratios.
isLinearMovement(movements) ==
    IF Len(movements) < 10 THEN FALSE
    ELSE LET sample == LastTwenty(movements) IN
         linearCount(sample) * 10 > 8 * (Len(sample) - 2)

(***************************************************************************)
(* SpecLinear: the pointer starts at Origin and every mousemove event      *)
(* moves it by one of Steps; at most MaxKinks events change the            *)
(* displacement of the event before, and at most MaxSamples events arrive  *)
(* before buildPayload asks the detector.                                  *)
(***************************************************************************)
MaxSamples == 22
MaxKinks == 4

Origin == [x |-> 0, y |-> 0]

\* two perpendicular displacements whose cross product is exactly 10, the
\* detector's threshold: a triplet is linear exactly when the pointer keeps
\* its displacement
Steps == {[x |-> 5, y |-> 0], [x |-> 0, y |-> 2]}

\* displacement between the last two samples
LastStep(movements) ==
    LET n == Len(movements) IN
    [x |-> movements[n].x - movements[n-1].x,
     y |-> movements[n].y - movements[n-1].y]

InitLinear ==
    /\ mouseMovements = <<>>
    /\ mouseMovementCount = 0
    /\ hasMouseMoved = FALSE
    /\ kinks = 0
    /\ arrivals = <<>>
    /\ linearMovement = FALSE
    /\ PageIdle
    /\ called = {}
    /\ probe = NULL
    /\ ClassifyIdle /\ CidrIdle /\ LookupIdle /\ ServerIdle

\* the listener evicting the sample just pushed instead of the oldest
MouseMoveListener_DropNewest(e) ==
    LET pushed == Append(mouseMovements,
                         [x |-> e.x, y |-> e.y, t |-> mouseMovementCount + 1])
    IN /\ hasMouseMoved' = TRUE
       /\ mouseMovementCount' = mouseMovementCount + 1
       /\ mouseMovements' = IF Len(pushed) > 100
                               THEN SubSeq(pushed, 1, Len(pushed) - 1)
                               ELSE pushed

\* the mousemove listener, for an event at e = (clientX, clientY)
MouseMoveListener(e) ==
    LET pushed == Append(mouseMovements,
                         [x |-> e.x, y |-> e.y, t |-> mouseMovementCount + 1])
    IN /\ hasMouseMoved' = TRUE
       /\ mouseMovementCount' = mouseMovementCount + 1
       /\ mouseMovements' = IF Len(pushed) > 100 THEN Tail(pushed) ELSE pushed

\* a mousemove event while fewer than maxEvents have arrived and the pointer
\* has changed its displacement at most maxKinks times: the first at Origin,
\* the later ones one step away from the sample before
PointerMove(maxEvents, maxKinks) ==
    /\ called = {}
    /\ mouseMovementCount < maxEvents
    /\ \E v \in Steps :
          LET n == Len(mouseMovements)
              e == IF n = 0 THEN Origin
                   ELSE [x |-> mouseMovements[n].x + v.x,
                         y |-> mouseMovements[n].y + v.y]
              kink == n >= 2 /\ v # LastStep(mouseMovements)
          IN /\ kinks + BoolToInt(kink) <= maxKinks
             /\ kinks' = kinks + BoolToInt(kink)
             /\ arrivals' = Append(arrivals, e)
             /\ MouseMoveListener(e)
    /\ UNCHANGED <<linearMovement, pageVars, called, probe, classifyVars,
                   cidrVars, lookupVars, serverVars>>

MouseMove == PointerMove(MaxSamples, MaxKinks)

\* buildPayload: linearMovement = isLinearMovement(state.mouseMovements)
BuildPayload ==
    /\ called = {}
    /\ linearMovement' = isLinearMovement(mouseMovements)
    /\ called' = {"buildPayload"}
    /\ UNCHANGED <<mouseMovements, mouseMovementCount, hasMouseMoved, kinks,
                   arrivals, pageVars, probe, classifyVars, cidrVars,
                   lookupVars, serverVars>>

NextLinear == MouseMove \/ BuildPayload

SpecLinear == InitLinear /\ [][NextLinear]_vars

(***************************************************************************)
(* Claims about the linear-movement detector (SpecLinear).                 *)
(***************************************************************************)
PayloadBuilt == called = {"buildPayload"}

\* the triplet of samples i-2, i-1, i of the window m counts as linear
C9_Linear(m, i) ==
    LET ax == m[i-1].x - m[i-2].x
        ay == m[i-1].y - m[i-2].y
        bx == m[i].x - m[i-1].x
        by == m[i].y - m[i-1].y
        c == ax * by - ay * bx
    IN c > 0 - 10 /\ c < 10

\* the linear triplets among the most recent k samples of the window m
C9_LinearTriplets(m, k) ==
    Cardinality({i \in (Len(m) - k + 3)..Len(m) : C9_Linear(m, i)})

\* C9: false for a window of fewer than 10 samples; for n >= 10 samples, with
\* k = min(n, 20), true if and only if the linear triplets among the most
\* recent k samples are strictly more than 80% of k - 2.
C9_DetectorVerdict ==
    PayloadBuilt =>
        LET n == Len(mouseMovements)
            k == Min(n, 20)
        IN IF n < 10 THEN linearMovement = FALSE
           ELSE linearMovement
                    <=> (5 * C9_LinearTriplets(mouseMovements, k) > 4 * (k - 2))

\* C9 witness: 12 samples of which exactly 8 of the 10 triplets are linear
\* (exactly 80%), not flagged.
C9_Witness ==
    /\ PayloadBuilt
    /\ Len(mouseMovements) = 12
    /\ C9_LinearTriplets(mouseMovements, 12) = 8
    /\ linearMovement = FALSE

\* every pair of consecutive samples of m has the same displacement
C10_ConstantVelocity(m) ==
    \A i \in 3..Len(m) :
        /\ m[i].x - m[i-1].x = m[i-1].x - m[i-2].x
        /\ m[i].y - m[i-1].y = m[i-1].y - m[i-2].y

\* C10: a window of 10 or more samples at constant velocity is flagged.
C10_CollinearFlagged ==
    (/\ PayloadBuilt
     /\ Len(mouseMovements) >= 10
     /\ C10_ConstantVelocity(mouseMovements)) => linearMovement = TRUE

\* C10 witness: 10 samples at a constant non-zero velocity, flagged.
C10_Witness ==
    /\ PayloadBuilt
    /\ Len(mouseMovements) = 10
    /\ C10_ConstantVelocity(mouseMovements)
    /\ mouseMovements[2].x # mouseMovements[1].x
    /\ linearMovement = TRUE

(***************************************************************************)
(* SpecWindow: a long visit.  Up to MaxEvents mousemove events arrive, the *)
(* pointer changing its displacement at most MaxTurns times, so that the   *)
(* sample window fills and evicts.                                         *)
(***************************************************************************)
MaxEvents == 102
MaxTurns == 1

LongMouseMove == PointerMove(MaxEvents, MaxTurns)

NextWindow == LongMouseMove

SpecWindow == InitLinear /\ [][NextWindow]_vars

\* the position of a sample
C11_Position(sample) == [x |-> sample.x, y |-> sample.y]

\* C11: after any sequence of mousemove events the window holds at most 100
\* samples, they are the most recent min(n, 100) of the n positions that
\* arrived, in arrival order, and the movement counter is n.
C11_WindowIsMostRecent ==
    LET n == Len(arrivals)
        k == Len(mouseMovements)
    IN /\ k <= 100
       /\ k = Min(n, 100)
       /\ \A i \in 1..k : C11_Position(mouseMovements[i]) = arrivals[n - k + i]
       /\ mouseMovementCount = n

\* C11 witness: 102 events arrived, the window holds the last 100 of them
\* and the first two were evicted.
C11_Witness ==
    /\ Len(arrivals) = 102
    /\ mouseMovementCount = 102
    /\ Len(mouseMovements) = 100
    /\ C11_Position(mouseMovements[1]) = arrivals[3]
    /\ C11_Position(mouseMovements[100]) = arrivals[102]

(***************************************************************************)
(* Claims about the range table and the scan over it (SpecLookup).         *)
(***************************************************************************)
\* a <= n <= b, for numbers
C13_Between(a, n, b) ==
    /\ (a.hi < n.hi \/ (a.hi = n.hi /\ a.lo <= n.lo))
    /\ (n.hi < b.hi \/ (n.hi = b.hi /\ n.lo <= b.lo))

\* the table entries whose interval holds the number n
C13_Holding(n) ==
    {k \in 1..Len(DATACENTER_RANGES) :
        C13_Between(DATACENTER_RANGES[k].start, n, DATACENTER_RANGES[k].end)}

\* table entry k is the entry pushed for literal i of the lists
C13_EntryOfLiteral(k, i) ==
    /\ DATACENTER_RANGES[k].provider = ParsedRanges[i].provider
    /\ DATACENTER_RANGES[k].start = ParsedRanges[i].range.start
    /\ DATACENTER_RANGES[k].end = ParsedRanges[i].range.end

\* C13: the address one below the start and the address one above the end of
\* a block do not lie inside the interval of the entry pushed for that
\* block; when isDatacenterIP reports such an address as datacenter, a
\* different entry of the table holds it.
C13_NeighboursOutside ==
    (LookedUp /\ probe.kind \in {"below", "above"}) =>
        LET n == ipToNumber(clientIP)
            e == ParsedRanges[probe.idx].range
        IN /\ n # NULL
           /\ ~C13_Between(e.start, n, e.end)
           /\ datacenterCheck.isDatacenter =>
                 \E k \in C13_Holding(n) :
                     /\ ~C13_EntryOfLiteral(k, probe.idx)
                     /\ datacenterCheck.provider = DATACENTER_RANGES[k].provider

\* C13 witness: 4.0.0.0, the address one above AWS 3.0.0.0/8, is in no entry
\* and is reported as not datacenter.
C13_Witness ==
    /\ LookedUp
    /\ probe.kind = "above"
    /\ clientIP = "4.0.0.0"
    /\ allRanges[probe.idx] = [cidr |-> "3.0.0.0/8", provider |-> "AWS"]
    /\ datacenterCheck = NotDatacenter

\* C17: an address inside one or more entries is reported under the provider
\* of a holding entry with the smallest start; an address inside no entry is
\* answered {isDatacenter: false, provider: null}.
C17_FirstMatchLowestStart ==
    (LookedUp /\ ipToNumber(clientIP) # NULL) =>
        LET n == ipToNumber(clientIP)
            hits == C13_Holding(n)
        IN IF hits = {} THEN datacenterCheck = NotDatacenter
           ELSE /\ datacenterCheck.isDatacenter
                /\ \E k \in hits :
                      /\ datacenterCheck.provider = DATACENTER_RANGES[k].provider
                      /\ \A j \in hits :
                            C13_Between(DATACENTER_RANGES[k].start,
                                        DATACENTER_RANGES[j].start,
                                        DATACENTER_RANGES[j].start)

\* C17 witness: 45.33.0.0 lies in Linode's 45.33.0.0/16 and in Vultr's
\* wider 45.32.0.0/15, which starts lower, and is reported under Vultr.
C17_Witness ==
    /\ LookedUp
    /\ clientIP = "45.33.0.0"
    /\ {DATACENTER_RANGES[k].provider : k \in C13_Holding(ipToNumber(clientIP))}
          = {"Linode", "Vultr"}
    /\ datacenterCheck = [isDatacenter |-> TRUE, provider |-> "Vultr"]

\* C18: the entry of a literal overlaps no other entry with the same
\* provider label.
C18_DisjointWithinProvider ==
    "idx" \in DOMAIN probe =>
        LET e == ParsedRanges[probe.idx].range IN
        \A k \in 1..Len(DATACENTER_RANGES) :
            (/\ DATACENTER_RANGES[k].provider = ParsedRanges[probe.idx].provider
             /\ ~C13_EntryOfLiteral(k, probe.idx))
            => ~(/\ C13_Between(DATACENTER_RANGES[k].start, e.end, e.end)
                 /\ C13_Between(e.start, DATACENTER_RANGES[k].end,
                                DATACENTER_RANGES[k].end))

\* C19: every entry of the table has start <= end, the table is in
\* ascending order of start, it has as many entries as the lists have
\* literals, and the literal a probe was drawn from has its entry.
C19_TableSortedAndComplete ==
    LET t == DATACENTER_RANGES IN
    /\ \A k \in 1..Len(t) : C13_Between(t[k].start, t[k].end, t[k].end)
    /\ \A k \in 1..(Len(t) - 1) :
          C13_Between(t[k].start, t[k+1].start, t[k+1].start)
    /\ Len(t) = Len(awsRanges) + Len(gcpRanges) + Len(azureRanges)
                 + Len(digitalOceanRanges) + Len(linodeRanges)
                 + Len(vultrRanges) + Len(ovhRanges) + Len(hetznerRanges)
    /\ "idx" \in DOMAIN probe =>
          /\ ParsedRanges[probe.idx].range # NULL
          /\ \E k \in 1..Len(t) : C13_EntryOfLiteral(k, probe.idx)

\* C19 witness: the table of initRanges, with the entry of the last literal
\* of the last list (Hetzner) placed before the end by the sort.
C19_Witness ==
    /\ "idx" \in DOMAIN probe
    /\ probe.idx = Len(allRanges)
    /\ Len(DATACENTER_RANGES) = Len(allRanges)
    /\ \E k \in 1..(Len(DATACENTER_RANGES) - 1) : C13_EntryOfLiteral(k, probe.idx)

(***************************************************************************)
(* SpecPure: the three exported pure functions called over and over, in    *)
(* any order, on a few inputs, after the module load has filled the table. *)
(***************************************************************************)
PureIPs == {"3.0.0.1", "45.33.0.0", "8.8.8.8"}

PureBundles ==
    {IdleBundle,
     [IdleBundle EXCEPT !.timeOnPage = 5000, !.hasMouseMoved = TRUE],
     [IdleBundle EXCEPT !.isWebdriver = TRUE, !.datacenterIP = TRUE]}

InitPure ==
    /\ DATACENTER_RANGES = initRanges
    /\ clientIP = ""
    /\ datacenterCheck = NULL
    /\ results = {}
    /\ project = NULL
    /\ visits = <<>>
    /\ requests = <<>>
    /\ SnapshotIdle
    /\ called = {}
    /\ probe = NULL
    /\ ClassifyIdle /\ CidrIdle /\ LinearIdle

\* a lookup that drops the first entry of the table as it goes
PureLookup_Evicting ==
    \E ip \in PureIPs :
        /\ clientIP' = ip
        /\ datacenterCheck' = isDatacenterIP(ip)
        /\ DATACENTER_RANGES' = Tail(DATACENTER_RANGES)
        /\ results' = results \cup {[fn |-> "isDatacenterIP", ip |-> ip,
                                     check |-> datacenterCheck']}
        /\ called' = called \cup {"isDatacenterIP"}
        /\ UNCHANGED <<probe, classifyVars, cidrVars, linearVars, project, visits,
                       requests, snapshotVars>>

\* isDatacenterIP(ip): the table is read, nothing is written
PureLookup ==
    \E ip \in PureIPs :
        /\ clientIP' = ip
        /\ datacenterCheck' = isDatacenterIP(ip)
        /\ results' = results \cup {[fn |-> "isDatacenterIP", ip |-> ip,
                                     check |-> datacenterCheck']}
        /\ called' = called \cup {"isDatacenterIP"}
        /\ UNCHANGED <<DATACENTER_RANGES, probe, classifyVars, cidrVars,
                       linearVars, project, visits, requests,
                       snapshotVars>>

\* calculateBotScore(signals)
PureScore ==
    \E d \in PureBundles :
        /\ data' = d
        /\ botScore' = calculateBotScore(d)
        /\ results' = results \cup {[fn |-> "calculateBotScore", signals |-> d,
                                     score |-> botScore']}
        /\ called' = called \cup {"calculateBotScore"}
        /\ UNCHANGED <<visitorType, earlierType, probe, cidrVars, lookupVars,
                       linearVars, project, visits, requests,
                       snapshotVars>>

\* classifyVisitor(data)
PureClassify ==
    \E d \in PureBundles :
        /\ data' = d
        /\ visitorType' = classifyVisitor(d)
        /\ results' = results \cup {[fn |-> "classifyVisitor", signals |-> d,
                                     verdict |-> visitorType']}
        /\ called' = called \cup {"classifyVisitor"}
        /\ UNCHANGED <<botScore, earlierType, probe, cidrVars, lookupVars,
                       linearVars, project, visits, requests,
                       snapshotVars>>

NextPure == PureLookup \/ PureScore \/ PureClassify

SpecPure == InitPure /\ [][NextPure]_vars

\* the calls of fn recorded so far
C15_Calls(fn) == {r \in results : r.fn = fn}

MaxRequests == 2
MaxTarget == 2

Sessions == {"s1", "s2"}

NoVisit == [absent |-> TRUE]

\* what the tracker sends: the ids and the signals of buildPayload
TrackerPayload(session, handle, t, linear, webdriver) ==
    [sessionId |-> session, productHandle |-> handle,
     timeOnPage |-> t, scrollDepth |-> 0, hasMouseMoved |-> TRUE,
     hasScrolled |-> FALSE, hasKeyPressed |-> FALSE, hasTouched |-> FALSE,
     isWebdriver |-> webdriver, suspiciousUA |-> FALSE,
     linearMovement |-> linear]

\* the payload that carries the two ids and nothing else
IdsOnlyPayload == [sessionId |-> "s2", productHandle |-> "shoe"]

\* the requests that arrive, each the address of its headers and the body
\* it posts: a short and a long visit of session s1, a long visit of s1 with
\* linear movement that reports navigator.webdriver, a long visit of s2 from
\* an AWS address, a body of s2 with the two ids only, a body without
\* sessionId, and a request for a product no project tracks
TrackRequests ==
    {[ip |-> NoIP, body |-> TrackerPayload("s1", "shoe", 4999, FALSE, FALSE)],
     [ip |-> "8.8.8.8",
      body |-> TrackerPayload("s1", "shoe", 5000, FALSE, FALSE)],
     [ip |-> "8.8.8.8",
      body |-> TrackerPayload("s1", "shoe", 5000, TRUE, TRUE)],
     [ip |-> "3.0.0.1",
      body |-> TrackerPayload("s2", "shoe", 5000, FALSE, FALSE)],
     [ip |-> "8.8.8.8", body |-> IdsOnlyPayload],
     [ip |-> "8.8.8.8", body |-> [productHandle |-> "shoe"]],
     [ip |-> "8.8.8.8",
      body |-> TrackerPayload("s1", "hat", 5000, FALSE, FALSE)]}

InitTrack ==
    /\ DATACENTER_RANGES = initRanges
    /\ clientIP = ""
    /\ datacenterCheck = NULL
    /\ project \in [productHandle : {"shoe"}, status : {"ACTIVE"},
                     targetVisitors : 1..MaxTarget]
    /\ visits = [s \in Sessions |-> NoVisit]
    /\ requests = <<>>
    /\ SnapshotIdle
    /\ results = {}
    /\ called = {}
    /\ probe = NULL
    /\ ClassifyIdle /\ CidrIdle /\ LinearIdle

\* a field destructured from the body: undefined when the body lacks it
Undefined == "<undefined>"

Destructured(body, field) ==
    IF field \in DOMAIN body THEN body[field] ELSE Undefined

\* flag || false with the flag always true: an absent flag counts as set
OrFalse_AbsentIsTrue(body, field) ==
    IF field \in DOMAIN body THEN body[field] ELSE TRUE

\* flag || false: the flag the body carries, false for a body without it
OrFalse(body, field) ==
    IF field \in DOMAIN body THEN body[field] ELSE FALSE

\* number || 0: the number the body carries, 0 for a body without it
OrZero(body, field) ==
    IF field \in DOMAIN body THEN body[field] ELSE 0

\* the object literal the handler hands to calculateBotScore
ScoreArguments(r) ==
    [isWebdriver |-> OrFalse(r.body, "isWebdriver"),
     suspiciousUA |-> OrFalse(r.body, "suspiciousUA"),
     linearMovement |-> OrFalse(r.body, "linearMovement"),
     datacenterIP |-> r.datacenterIP,
     hasMouseMoved |-> OrFalse(r.body, "hasMouseMoved"),
     hasTouched |-> OrFalse(r.body, "hasTouched"),
     hasScrolled |-> OrFalse(r.body, "hasScrolled"),
     hasKeyPressed |-> OrFalse(r.body, "hasKeyPressed"),
     timeOnPage |-> OrZero(r.body, "timeOnPage")]

\* the object literal the handler hands to classifyVisitor
HandlerBundle(r) ==
    [timeOnPage |-> OrZero(r.body, "timeOnPage"),
     scrollDepth |-> OrZero(r.body, "scrollDepth"),
     hasMouseMoved |-> OrFalse(r.body, "hasMouseMoved"),
     hasScrolled |-> OrFalse(r.body, "hasScrolled"),
     hasKeyPressed |-> OrFalse(r.body, "hasKeyPressed"),
     hasTouched |-> OrFalse(r.body, "hasTouched"),
     isWebdriver |-> OrFalse(r.body, "isWebdriver"),
     suspiciousUA |-> OrFalse(r.body, "suspiciousUA"),
     linearMovement |-> OrFalse(r.body, "linearMovement"),
     datacenterIP |-> r.datacenterIP]

\* visits: { where: { visitorType: "REAL" } } counted
RealCount ==
    Cardinality({s \in Sessions :
                    visits[s] # NoVisit /\ visits[s].visitorType = "REAL"})

\* the request answered
Respond(i, response) ==
    requests' = [requests EXCEPT ![i] = [@ EXCEPT !.pc = "done",
                                                  !.response = response]]

trackFrame == <<classifyVars, probe, cidrVars, lookupVars, linearVars, called,
                results, snapshotVars>>

\* the handler up to its first query, for the request q: the required
\* fields, the client IP, the datacenter check and the bot score
Received(q) ==
    LET sessionId == Destructured(q.body, "sessionId")
        productHandle == Destructured(q.body, "productHandle")
        missing == \/ sessionId \in {Undefined, ""}
                   \/ productHandle \in {Undefined, ""}
        check == IF q.ip # NoIP THEN isDatacenterIP(q.ip) ELSE NotDatacenter
        r == [sessionId |-> sessionId, productHandle |-> productHandle,
              ip |-> q.ip, body |-> q.body,
              datacenterIP |-> IF missing THEN FALSE ELSE check.isDatacenter,
              scoreArguments |-> NULL, classifyArguments |-> NULL,
              botScore |-> 0, found |-> NULL, visitorType |-> "",
              realCount |-> 0,
              pc |-> IF missing THEN "done" ELSE "find",
              response |-> IF missing THEN "missing fields" ELSE ""]
    IN IF missing THEN r
       ELSE [r EXCEPT !.scoreArguments = ScoreArguments(r),
                      !.botScore = calculateBotScore(ScoreArguments(r))]

\* a request arrives and runs up to its first query
Receive ==
    /\ Len(requests) < MaxRequests
    /\ \E q \in TrackRequests : requests' = Append(requests, Received(q))
    /\ UNCHANGED <<project, visits, trackFrame>>

\* prisma.project.findFirst and the two ifs behind it
FindProject(i) ==
    /\ requests[i].pc = "find"
    /\ IF project.productHandle = requests[i].productHandle
          /\ project.status = "ACTIVE"
       THEN LET found == [count |-> RealCount,
                          targetVisitors |-> project.targetVisitors]
            IN requests' =
                  [requests EXCEPT ![i] =
                      [@ EXCEPT !.found = found,
                                !.pc = IF found.count >= found.targetVisitors
                                       THEN "complete" ELSE "upsert"]]
       ELSE Respond(i, "not tracked")
    /\ UNCHANGED <<project, visits, trackFrame>>

\* prisma.project.update of the target check, and its return
CompleteOnArrival(i) ==
    /\ requests[i].pc = "complete"
    /\ project' = [project EXCEPT !.status = "COMPLETED"]
    /\ Respond(i, "completed")
    /\ UNCHANGED <<visits, trackFrame>>

\* the create branch of the upsert
CreatedVisit(r, verdict) ==
    [visitorType |-> verdict,
     timeOnPage |-> OrZero(r.body, "timeOnPage"),
     scrollDepth |-> OrZero(r.body, "scrollDepth"),
     hasMouseMoved |-> OrFalse(r.body, "hasMouseMoved"),
     hasScrolled |-> OrFalse(r.body, "hasScrolled"),
     hasKeyPressed |-> OrFalse(r.body, "hasKeyPressed"),
     hasTouched |-> OrFalse(r.body, "hasTouched"),
     isWebdriver |-> OrFalse(r.body, "isWebdriver"),
     suspiciousUA |-> OrFalse(r.body, "suspiciousUA"),
     linearMovement |-> OrFalse(r.body, "linearMovement"),
     datacenterIP |-> r.datacenterIP, botScore |-> r.botScore,
     ipAddress |-> r.ip]

\* the update branch of the upsert: isWebdriver, suspiciousUA and ipAddress
\* are not among the fields written
UpdatedVisit(old, r, verdict) ==
    [CreatedVisit(r, verdict) EXCEPT !.isWebdriver = old.isWebdriver,
                                     !.suspiciousUA = old.suspiciousUA,
                                     !.ipAddress = old.ipAddress]

\* an upsert that leaves the verdict of an existing row alone
UpsertVisit_KeepVerdict(i) ==
    LET r == requests[i]
        verdict == classifyVisitor(HandlerBundle(r))
        old == visits[r.sessionId]
    IN /\ r.pc = "upsert"
       /\ visits' = [visits EXCEPT ![r.sessionId] =
                        IF old = NoVisit THEN CreatedVisit(r, verdict)
                        ELSE UpdatedVisit(old, r, old.visitorType)]
       /\ requests' = [requests EXCEPT ![i] =
                          [@ EXCEPT !.classifyArguments = HandlerBundle(r),
                                    !.visitorType = verdict,
                                    !.pc = "count"]]
       /\ UNCHANGED <<project, trackFrame>>

\* classifyVisitor and prisma.visit.upsert
UpsertVisit(i) ==
    LET r == requests[i]
        verdict == classifyVisitor(HandlerBundle(r))
        old == visits[r.sessionId]
    IN /\ r.pc = "upsert"
       /\ visits' = [visits EXCEPT ![r.sessionId] =
                        IF old = NoVisit THEN CreatedVisit(r, verdict)
                        ELSE UpdatedVisit(old, r, verdict)]
       /\ requests' = [requests EXCEPT ![i] =
                          [@ EXCEPT !.classifyArguments = HandlerBundle(r),
                                    !.visitorType = verdict,
                                    !.pc = "count"]]
       /\ UNCHANGED <<project, trackFrame>>

\* prisma.visit.count and the if behind it
CountReal(i) ==
    /\ requests[i].pc = "count"
    /\ IF RealCount >= requests[i].found.targetVisitors
       THEN requests' = [requests EXCEPT ![i] = [@ EXCEPT !.realCount = RealCount,
                                                         !.pc = "completeLate"]]
       ELSE requests' = [requests EXCEPT ![i] = [@ EXCEPT !.realCount = RealCount,
                                                         !.pc = "done",
                                                         !.response = "tracked"]]
    /\ UNCHANGED <<project, visits, trackFrame>>

\* prisma.project.update after the upsert, and the final return
CompleteAfterUpsert(i) ==
    /\ requests[i].pc = "completeLate"
    /\ project' = [project EXCEPT !.status = "COMPLETED"]
    /\ Respond(i, "tracked")
    /\ UNCHANGED <<visits, trackFrame>>

\* the merchant's pause
Pause ==
    /\ project.status # "PAUSED"
    /\ project' = [project EXCEPT !.status = "PAUSED"]
    /\ UNCHANGED <<visits, requests, trackFrame>>

\* the merchant's resume
Resume ==
    /\ project.status # "ACTIVE"
    /\ project' = [project EXCEPT !.status = "ACTIVE"]
    /\ UNCHANGED <<visits, requests, trackFrame>>

NextTrack ==
    \/ Receive
    \/ \E i \in DOMAIN requests : FindProject(i)
    \/ \E i \in DOMAIN requests : CompleteOnArrival(i)
    \/ \E i \in DOMAIN requests : UpsertVisit(i)
    \/ \E i \in DOMAIN requests : CountReal(i)
    \/ \E i \in DOMAIN requests : CompleteAfterUpsert(i)
    \/ Pause
    \/ Resume

SpecTrack == InitTrack /\ [][NextTrack]_vars

(***************************************************************************)
(* Claims about the stored verdict (SpecTrack).                            *)
(***************************************************************************)
\* the verdict stored for a session, "none" before its row exists
C14_Verdict(row) == IF row = NoVisit THEN "none" ELSE row.visitorType

\* this step is the upsert of request i
C14_Upserting(i) == requests[i].pc = "upsert" /\ requests'[i].pc = "count"

\* request r carries timeOnPage >= 5000, an interaction flag and fewer than
\* 2 bot signals, the datacenter signal of its address included
C14_Engaged(r) ==
    /\ HandlerBundle(r).timeOnPage >= 5000
    /\ AnyInteraction(HandlerBundle(r))
    /\ Cardinality(TrueBotSignals(HandlerBundle(r))) < 2

C14_Step ==
    \A s \in Sessions :
        /\ C14_Verdict(visits'[s]) # C14_Verdict(visits[s])
              => \E i \in DOMAIN requests :
                    requests[i].sessionId = s /\ C14_Upserting(i)
        /\ (\A i \in DOMAIN requests' :
                requests'[i].sessionId = s
                    => HandlerBundle(requests'[i]).timeOnPage < 5000)
              => C14_Verdict(visits'[s]) # "REAL"
        /\ \A i \in DOMAIN requests :
              (/\ requests[i].sessionId = s
               /\ C14_Upserting(i)
               /\ C14_Verdict(visits[s]) = "ZOMBIE"
               /\ C14_Engaged(requests[i]))
              => C14_Verdict(visits'[s]) = "REAL"

\* C14: in every step, the verdict stored for a session changes only in the
\* upsert of a request of that session; while every request received for
\* the session carried timeOnPage < 5000 the stored verdict is not REAL; and
\* the upsert of a request with timeOnPage >= 5000, an interaction flag and
\* fewer than 2 bot signals turns a stored ZOMBIE into REAL.
C14_VerdictFollowsRequests == [][C14_Step]_vars

\* C14 witness: session s1 was stored as ZOMBIE by its first request, which
\* has been answered, and the upsert of its second request, with
\* timeOnPage 5000, has just made it REAL.
C14_Witness ==
    /\ Len(requests) = 2
    /\ requests[1].sessionId = "s1" /\ requests[2].sessionId = "s1"
    /\ requests[1].visitorType = "ZOMBIE" /\ requests[1].response = "tracked"
    /\ requests[2].pc = "count" /\ C14_Engaged(requests[2])
    /\ project.status = "ACTIVE"
    /\ visits["s1"].visitorType = "REAL"

\* C20: in every step taken while the project is PAUSED or COMPLETED, or
\* while its REAL visits have reached targetVisitors, no Visit row is
\* created or changed.
C20_ClosedPeriodFreezesVisits ==
    [][(\/ project.status \in {"PAUSED", "COMPLETED"}
        \/ RealCount >= project.targetVisitors) => visits' = visits]_vars

(***************************************************************************)
(* SpecVersions: the earlier and the later classifier applied to the same  *)
(* signal bundle.                                                          *)
(***************************************************************************)
CallClassifyVisitorEarlier ==
    /\ "classifyVisitorEarlier" \notin called
    /\ earlierType' = classifyVisitorEarlier(data)
    /\ called' = called \cup {"classifyVisitorEarlier"}
    /\ UNCHANGED <<data, visitorType, botScore, probe, cidrVars, lookupVars,
                   linearVars, serverVars>>

NextVersions == CallClassifyVisitor \/ CallClassifyVisitorEarlier

SpecVersions == InitClassify /\ [][NextVersions]_vars

BothClassified == Classified /\ "classifyVisitorEarlier" \in called

\* the four bot signals both versions count, as a set of the true ones
C27_OtherSignals(d) == TrueBotSignals(d) \ {"datacenterIP"}

\* a visit from a datacenter address that is otherwise clean: no other bot
\* signal, pointer activity, timeOnPage >= 5000, some interaction
C22_CleanDatacenterVisit(d) ==
    /\ d.datacenterIP
    /\ ~d.isWebdriver /\ ~d.suspiciousUA /\ ~d.linearMovement
    /\ (d.hasMouseMoved \/ d.hasTouched)
    /\ d.timeOnPage >= 5000
    /\ AnyInteraction(d)

\* C22 as stated: on a clean datacenter visit the earlier classifier returns
\* REAL and the later one BOT.
C22_VersionsDivergeOnCleanVisit ==
    (BothClassified /\ C22_CleanDatacenterVisit(data)) =>
        (earlierType = "REAL" /\ visitorType = "BOT")

\* C22 amended: on a clean datacenter visit both classifiers return REAL
\* (datacenterIP is one signal and BOT takes two); the later classifier
\* turns the earlier REAL into BOT when the datacenter visit has exactly one
\* of the other four bot signals.
C22_CleanVisitStaysReal ==
    BothClassified =>
        /\ C22_CleanDatacenterVisit(data)
              => (earlierType = "REAL" /\ visitorType = "REAL")
        /\ (earlierType = "REAL" /\ visitorType = "BOT")
              => (data.datacenterIP /\ Cardinality(C27_OtherSignals(data)) = 1)

\* C22 witness: a clean datacenter visit, REAL under both versions.
C22_Witness ==
    /\ BothClassified
    /\ C22_CleanDatacenterVisit(data)
    /\ earlierType = "REAL" /\ visitorType = "REAL"

\* C27: with datacenterIP false the two versions agree; with datacenterIP
\* true the later verdict is the earlier verdict or BOT, and the two differ
\* exactly when exactly one of the other four bot signals is true.
C27_VersionsRelated ==
    BothClassified =>
        /\ ~data.datacenterIP => visitorType = earlierType
        /\ data.datacenterIP =>
              /\ visitorType \in {earlierType, "BOT"}
              /\ visitorType # earlierType
                    <=> Cardinality(C27_OtherSignals(data)) = 1

\* C27 witness: a datacenter visit with linearMovement as its one other
\* signal, REAL under the earlier version and BOT under the later.
C27_Witness ==
    /\ BothClassified
    /\ data.datacenterIP
    /\ C27_OtherSignals(data) = {"linearMovement"}
    /\ earlierType = "REAL" /\ visitorType = "BOT"

C30_ScrollDepths == 0..100

\* C30: whatever scrollDepth in 0..100 replaces the bundle's, both versions
\* return the verdict they returned.
C30_ScrollDepthIrrelevant ==
    BothClassified =>
        \A depth \in C30_ScrollDepths :
            /\ classifyVisitor([data EXCEPT !.scrollDepth = depth]) = visitorType
            /\ classifyVisitorEarlier([data EXCEPT !.scrollDepth = depth])
                  = earlierType

\* C30 witness: a visit whose only interaction is a scroll of depth 9, below
\* MIN_SCROLL_FOR_ENGAGED, classified REAL.
C30_Witness ==
    /\ BothClassified
    /\ data.hasScrolled /\ data.scrollDepth = 9
    /\ ~data.hasKeyPressed /\ ~data.hasMouseMoved /\ data.hasTouched = FALSE
    /\ visitorType = "REAL"

(***************************************************************************)
(* Claims about the handler's reading of the body (SpecTrack).             *)
(***************************************************************************)
C21_Flags ==
    {"isWebdriver", "suspiciousUA", "linearMovement", "hasMouseMoved",
     "hasTouched", "hasScrolled", "hasKeyPressed"}

C21_Numbers == {"timeOnPage", "scrollDepth"}

\* every field of args the body lacks is false, or 0 for a number
C21_AbsentNormalized(body, args) ==
    /\ \A f \in (C21_Flags \cap DOMAIN args) \ DOMAIN body : args[f] = FALSE
    /\ \A f \in (C21_Numbers \cap DOMAIN args) \ DOMAIN body : args[f] = 0

\* the bundle of a body without signals, sent from an address that is no
\* datacenter's
C21_ZeroBundle ==
    [timeOnPage |-> 0, scrollDepth |-> 0, hasMouseMoved |-> FALSE,
     hasScrolled |-> FALSE, hasKeyPressed |-> FALSE, hasTouched |-> FALSE,
     isWebdriver |-> FALSE, suspiciousUA |-> FALSE, linearMovement |-> FALSE,
     datacenterIP |-> FALSE]

\* C21: in the arguments of calculateBotScore and of classifyVisitor every
\* signal the body lacks is false (flags) or 0 (timeOnPage, scrollDepth);
\* the two calls of one request get the same isWebdriver, suspiciousUA,
\* linearMovement, datacenterIP, hasMouseMoved, hasTouched, hasScrolled,
\* hasKeyPressed and timeOnPage; and a body with only sessionId and
\* productHandle is not rejected and is classified from the all-false,
\* zero-time bundle.
C21_AbsentFieldsNormalized ==
    \A i \in DOMAIN requests :
        LET r == requests[i]
        IN /\ r.scoreArguments # NULL
                 => C21_AbsentNormalized(r.body, r.scoreArguments)
           /\ r.classifyArguments # NULL
                 => /\ C21_AbsentNormalized(r.body, r.classifyArguments)
                    /\ \A f \in C21_Flags \cup {"datacenterIP", "timeOnPage"} :
                          r.classifyArguments[f] = r.scoreArguments[f]
           /\ r.body = IdsOnlyPayload
                 => /\ r.response \in {"", "tracked", "completed", "not tracked"}
                    /\ r.botScore = calculateBotScore(C21_ZeroBundle)
                    /\ r.visitorType # ""
                          => /\ r.classifyArguments = C21_ZeroBundle
                             /\ r.visitorType = classifyVisitor(C21_ZeroBundle)

\* C21 witness: the body with the two ids only has been answered as
\* tracked, and the row stored for it is a ZOMBIE with timeOnPage 0 and no
\* flag set.
C21_Witness ==
    \E i \in DOMAIN requests :
        /\ requests[i].body = IdsOnlyPayload
        /\ requests[i].response = "tracked"
        /\ requests[i].classifyArguments = C21_ZeroBundle
        /\ visits["s2"] # NoVisit
        /\ visits["s2"].visitorType = "ZOMBIE"
        /\ visits["s2"].timeOnPage = 0
        /\ ~visits["s2"].hasMouseMoved

(***************************************************************************)
(* Claims about the stored row (SpecTrack).                                *)
(***************************************************************************)
\* the signal columns of a stored row
C24_Columns(row) ==
    [timeOnPage |-> row.timeOnPage, scrollDepth |-> row.scrollDepth,
     hasMouseMoved |-> row.hasMouseMoved, hasScrolled |-> row.hasScrolled,
     hasKeyPressed |-> row.hasKeyPressed, hasTouched |-> row.hasTouched,
     isWebdriver |-> row.isWebdriver, suspiciousUA |-> row.suspiciousUA,
     linearMovement |-> row.linearMovement, datacenterIP |-> row.datacenterIP]

\* C24: the visitorType stored in a row is classifyVisitor of the row's
\* signal columns and the botScore stored in it is calculateBotScore of
\* them, whatever requests wrote the row.
C24_StoredVerdictMatchesColumns ==
    \A s \in Sessions :
        visits[s] # NoVisit
            => /\ visits[s].visitorType = classifyVisitor(C24_Columns(visits[s]))
               /\ visits[s].botScore = calculateBotScore(C24_Columns(visits[s]))

\* C25: the visits stored as REAL never exceed the project's targetVisitors,
\* however the steps of the requests of different sessions interleave.
C25_RealWithinTarget == RealCount <= project.targetVisitors

(***************************************************************************)
(* SpecJitter: a hand at rest.  Every mousemove event leaves the pointer   *)
(* where it is or moves it by one pixel, and never by the displacement of  *)
(* the event before; at most MaxJitter events arrive before buildPayload   *)
(* asks the detector.                                                      *)
(***************************************************************************)
MaxJitter == 10

JitterSteps ==
    {[x |-> 1, y |-> 0], [x |-> 0 - 1, y |-> 0], [x |-> 0, y |-> 1],
     [x |-> 0, y |-> 0]}

JitterMove ==
    /\ called = {}
    /\ mouseMovementCount < MaxJitter
    /\ \E v \in JitterSteps :
          LET n == Len(mouseMovements)
              e == IF n = 0 THEN Origin
                   ELSE [x |-> mouseMovements[n].x + v.x,
                         y |-> mouseMovements[n].y + v.y]
          IN /\ n >= 2 => v # LastStep(mouseMovements)
             /\ arrivals' = Append(arrivals, e)
             /\ MouseMoveListener(e)
    /\ UNCHANGED <<kinks, linearMovement, pageVars, called, probe, classifyVars,
                   cidrVars, lookupVars, serverVars>>

NextJitter == JitterMove \/ BuildPayload

SpecJitter == InitLinear /\ [][NextJitter]_vars

\* the two displacements of the triplet that ends at sample[i]
C23_First(sample, i) ==
    [x |-> sample[i-1].x - sample[i-2].x, y |-> sample[i-1].y - sample[i-2].y]

C23_Second(sample, i) ==
    [x |-> sample[i].x - sample[i-1].x, y |-> sample[i].y - sample[i-1].y]

C23_Zero == [x |-> 0, y |-> 0]

\* the second displacement is the exact reverse of the first, perpendicular
\* to it, or the zero vector
C23_NotSameDirection(sample, i) ==
    LET a == C23_First(sample, i)
        b == C23_Second(sample, i)
    IN \/ b = C23_Zero
       \/ a # C23_Zero /\ b = [x |-> 0 - a.x, y |-> 0 - a.y]
       \/ a # C23_Zero /\ a.x * b.x + a.y * b.y = 0

\* C23: the detector counts no triplet whose second displacement is the
\* reverse of the first, perpendicular to it or zero, and does not flag a
\* window of 10 or more samples that only jitters by a pixel in changing
\* directions.
C23_JitterNotFlagged ==
    PayloadBuilt =>
        LET sample == LastTwenty(mouseMovements)
        IN /\ \A i \in 3..Len(sample) :
                 cross(sample, i) < 10 => ~C23_NotSameDirection(sample, i)
           /\ Len(mouseMovements) >= 10 => linearMovement = FALSE

(***************************************************************************)
(* SpecBeacon: one visitor on the product page.  Time passes, the          *)
(* listeners set the engagement flags, the page is reloaded, and every     *)
(* beacon of sendTrackingData is handled by the server before the next     *)
(* step of the browser.                                                    *)
(***************************************************************************)
MaxTicks == 2
MaxInputs == 2

\* the milliseconds between two readings of the clock
TickMs == 2500

\* the values getScrollDepth returns at the scroll events
ScrollDepths == {20, 60}

InitBeacon ==
    /\ DATACENTER_RANGES = initRanges
    /\ clientIP = ""
    /\ datacenterCheck = NULL
    /\ project = [productHandle |-> "shoe", status |-> "ACTIVE",
                  targetVisitors |-> MaxTarget]
    /\ visits = [s \in Sessions |-> NoVisit]
    /\ requests = <<>>
    /\ SnapshotIdle
    /\ results = {}
    /\ called = {}
    /\ probe = NULL
    /\ ClassifyIdle /\ CidrIdle /\ LinearIdle

beaconFrame == <<classifyVars, probe, cidrVars, lookupVars, kinks, arrivals,
                 called, results, requests, snapshotVars>>

\* the input events counted so far in this page load
Inputs == mouseMovementCount + state.keyPressCount + state.touchEventCount

\* Date.now() moves on
Tick ==
    /\ now < MaxTicks * TickMs
    /\ now' = now + TickMs
    /\ UNCHANGED <<state, mouseMovements, mouseMovementCount, hasMouseMoved,
                   linearMovement, project, visits, beaconFrame>>

\* the mousemove listener
MouseMoveEvent ==
    /\ Inputs < MaxInputs
    /\ MouseMoveListener(Origin)
    /\ UNCHANGED <<pageVars, linearMovement, project, visits, beaconFrame>>

\* the scroll listener
ScrollEvent ==
    /\ \E depth \in ScrollDepths :
          state' = [state EXCEPT !.hasScrolled = TRUE,
                                 !.maxScrollDepth = Max(@, depth)]
    /\ UNCHANGED <<now, mouseMovements, mouseMovementCount, hasMouseMoved,
                   linearMovement, project, visits, beaconFrame>>

\* the keydown listener
KeyDownEvent ==
    /\ Inputs < MaxInputs
    /\ state' = [state EXCEPT !.hasKeyPressed = TRUE, !.keyPressCount = @ + 1]
    /\ UNCHANGED <<now, mouseMovements, mouseMovementCount, hasMouseMoved,
                   linearMovement, project, visits, beaconFrame>>

\* the touchstart listener
TouchStartEvent ==
    /\ Inputs < MaxInputs
    /\ state' = [state EXCEPT !.hasTouched = TRUE, !.touchEventCount = @ + 1]
    /\ UNCHANGED <<now, mouseMovements, mouseMovementCount, hasMouseMoved,
                   linearMovement, project, visits, beaconFrame>>

\* the page is loaded again, later than before: the script builds a new
\* state object, and getSessionId finds the session id in the cookie
Reload ==
    /\ now > state.startTime
    /\ state' = FreshState(now)
    /\ mouseMovements' = <<>>
    /\ mouseMovementCount' = 0
    /\ hasMouseMoved' = FALSE
    /\ UNCHANGED <<now, linearMovement, project, visits, beaconFrame>>

\* buildPayload, for the session of the cookie on the page of product shoe
buildPayload ==
    [sessionId |-> "s1", productHandle |-> "shoe",
     timeOnPage |-> now - state.startTime,
     scrollDepth |-> state.maxScrollDepth,
     mouseMovements |-> mouseMovementCount,
     keyPresses |-> state.keyPressCount,
     touchEvents |-> state.touchEventCount,
     hasMouseMoved |-> hasMouseMoved,
     hasScrolled |-> state.hasScrolled,
     hasKeyPressed |-> state.hasKeyPressed,
     hasTouched |-> state.hasTouched,
     isWebdriver |-> FALSE, suspiciousUA |-> FALSE,
     linearMovement |-> isLinearMovement(mouseMovements)]

\* the rows after the upsert of request r
Upserted(r) ==
    LET verdict == classifyVisitor(HandlerBundle(r))
        old == visits[r.sessionId]
    IN [visits EXCEPT ![r.sessionId] =
           IF old = NoVisit THEN CreatedVisit(r, verdict)
           ELSE UpdatedVisit(old, r, verdict)]

\* sendTrackingData, and the handler run from its first line to its return
\* with no other request in between
SendTrackingData ==
    LET r == Received([ip |-> "8.8.8.8", body |-> buildPayload])
        tracked == /\ r.pc = "find"
                   /\ project.productHandle = r.productHandle
                   /\ project.status = "ACTIVE"
        stored == Upserted(r)
        realCount == Cardinality({s \in Sessions :
                                     /\ stored[s] # NoVisit
                                     /\ stored[s].visitorType = "REAL"})
    IN /\ linearMovement' = isLinearMovement(mouseMovements)
       /\ IF ~tracked THEN UNCHANGED <<project, visits>>
          ELSE IF RealCount >= project.targetVisitors
          THEN /\ project' = [project EXCEPT !.status = "COMPLETED"]
               /\ UNCHANGED visits
          ELSE /\ visits' = stored
               /\ project' = IF realCount >= project.targetVisitors
                             THEN [project EXCEPT !.status = "COMPLETED"]
                             ELSE project
       /\ UNCHANGED <<pageVars, mouseMovements, mouseMovementCount,
                      hasMouseMoved, beaconFrame>>

NextBeacon ==
    \/ Tick
    \/ MouseMoveEvent
    \/ ScrollEvent
    \/ KeyDownEvent
    \/ TouchStartEvent
    \/ Reload
    \/ SendTrackingData

SpecBeacon == InitBeacon /\ [][NextBeacon]_vars

\* no step turns the verdict stored for the session from REAL into ZOMBIE
C26_RealSurvives ==
    (visits["s1"] # NoVisit /\ visits["s1"].visitorType = "REAL")
        => visits'["s1"].visitorType # "ZOMBIE"

\* a step within one page load sets no flag back and lowers neither
\* timeOnPage nor maxScrollDepth
C26_Monotone ==
    state'.startTime = state.startTime
        => /\ hasMouseMoved => hasMouseMoved'
           /\ state.hasScrolled => state'.hasScrolled
           /\ state.hasKeyPressed => state'.hasKeyPressed
           /\ state.hasTouched => state'.hasTouched
           /\ now' - state'.startTime >= now - state.startTime
           /\ state'.maxScrollDepth >= state.maxScrollDepth

\* C26: over the beacons of one session and product, reloads of the page
\* included, a visit stored as REAL is never overwritten as ZOMBIE; and
\* within one page load the engagement flags only go from false to true
\* and timeOnPage and maxScrollDepth never decrease.
C26_RealNeverBecomesZombie == [][C26_RealSurvives /\ C26_Monotone]_vars

(***************************************************************************)
(* SpecSnapshot: the merchant's actions on the snapshots of one product,   *)
(* from the dashboard (create) and from the project page, executed one at  *)
(* a time.  At most MaxSnapshots snapshots are ever created.               *)
(***************************************************************************)
MaxSnapshots == 3

\* the values of the targetVisitors form field
Targets == {0, 1000}

\* the Project row of the product
ProjectRow == [productId |-> "p1"]

InitSnapshot ==
    /\ project = NULL
    /\ SnapshotIdle
    /\ results = {}
    /\ visits = <<>>
    /\ requests = <<>>
    /\ called = {}
    /\ probe = NULL
    /\ ClassifyIdle /\ CidrIdle /\ LookupIdle /\ LinearIdle

snapshotFrame == <<classifyVars, probe, cidrVars, lookupVars, linearVars,
                   called, results, visits, requests>>

\* snapshot.findFirst({ where: { projectId, status: "ACTIVE" } })
ActiveSnapshots == {s \in snapshots : s.status = "ACTIVE"}

\* the response of an action that names no snapshot
Replied(action, status) == reply' = [action |-> action, status |-> status]

\* the response of an action on the snapshot id
RepliedFor(action, id, status) ==
    reply' = [action |-> action, snapshotId |-> id, status |-> status]

\* parseInt(formData.get("targetVisitors")) || 1000
OrThousand(t) == IF t = 0 THEN 1000 ELSE t

\* the REAL visits counted for a snapshot: no visit arrives here
RealVisits(s) == 0

\* prisma.snapshot.create under the unique index on (projectId, number):
\* the row is inserted and the action succeeds, or the index refuses it and
\* the action fails
SnapshotCreate(action, number, targetVisitors) ==
    IF \E s \in snapshots : s.number = number
    THEN /\ Replied(action, 500)
         /\ UNCHANGED <<project, snapshots, snapshotIds>>
    ELSE /\ snapshotIds < MaxSnapshots
         /\ snapshots' = snapshots \cup
                {[id |-> snapshotIds + 1, number |-> number,
                  status |-> "ACTIVE", targetVisitors |-> targetVisitors]}
         /\ snapshotIds' = snapshotIds + 1
         /\ project' = ProjectRow
         /\ Replied(action, 200)

\* the dashboard's create
CreateAudit ==
    /\ \E t \in Targets :
          IF project # NULL /\ ActiveSnapshots # {}
          THEN /\ Replied("create", 400)
               /\ UNCHANGED <<project, snapshots, snapshotIds>>
          ELSE IF project # NULL
          THEN SnapshotCreate("create", Cardinality(snapshots) + 1,
                              OrThousand(t))
          ELSE SnapshotCreate("create", 1, OrThousand(t))
    /\ UNCHANGED snapshotFrame

\* lastSnapshot?.number || 0
LastNumber ==
    IF snapshots = {} THEN 0
    ELSE CHOOSE n \in {s.number : s \in snapshots} :
            \A s \in snapshots : s.number <= n

\* the project page's create-snapshot
CreateSnapshot ==
    /\ project # NULL
    /\ \E t \in Targets :
          IF ActiveSnapshots # {}
          THEN /\ Replied("create-snapshot", 400)
               /\ UNCHANGED <<project, snapshots, snapshotIds>>
          ELSE SnapshotCreate("create-snapshot", LastNumber + 1, OrThousand(t))
    /\ UNCHANGED snapshotFrame

\* the rows after snapshot.update of row s
Updated(s, row) == (snapshots \ {s}) \cup {row}

\* the project page's pause-snapshot
PauseSnapshot ==
    /\ \E s \in snapshots :
          /\ snapshots' = Updated(s, [s EXCEPT !.status = "PAUSED"])
          /\ RepliedFor("pause-snapshot", s.id, 200)
    /\ UNCHANGED <<project, snapshotIds, snapshotFrame>>

\* a resume-snapshot that does not look for an ACTIVE snapshot
ResumeSnapshot_Unchecked ==
    /\ \E s \in snapshots :
          /\ snapshots' = Updated(s, [s EXCEPT !.status = "ACTIVE"])
          /\ RepliedFor("resume-snapshot", s.id, 200)
    /\ UNCHANGED <<project, snapshotIds, snapshotFrame>>

\* the project page's resume-snapshot
ResumeSnapshot ==
    /\ \E s \in snapshots :
          IF ActiveSnapshots # {}
          THEN /\ RepliedFor("resume-snapshot", s.id, 400)
               /\ UNCHANGED snapshots
          ELSE /\ snapshots' = Updated(s, [s EXCEPT !.status = "ACTIVE"])
               /\ RepliedFor("resume-snapshot", s.id, 200)
    /\ UNCHANGED <<project, snapshotIds, snapshotFrame>>

\* the project page's edit-snapshot
EditSnapshot ==
    /\ \E s \in snapshots, targetVisitors \in Targets :
          IF targetVisitors < RealVisits(s)
          THEN /\ RepliedFor("edit-snapshot", s.id, 400)
               /\ UNCHANGED snapshots
          ELSE LET shouldComplete == targetVisitors <= RealVisits(s)
               IN /\ snapshots' =
                        Updated(s, [s EXCEPT
                                      !.targetVisitors = targetVisitors,
                                      !.status = IF shouldComplete
                                                 THEN "COMPLETED" ELSE @])
                  /\ RepliedFor("edit-snapshot", s.id, 200)
    /\ UNCHANGED <<project, snapshotIds, snapshotFrame>>

\* the project page's delete-snapshot
DeleteSnapshot ==
    /\ \E s \in snapshots :
          /\ snapshots' = snapshots \ {s}
          /\ RepliedFor("delete-snapshot", s.id, 200)
    /\ UNCHANGED <<project, snapshotIds, snapshotFrame>>

NextSnapshot ==
    \/ CreateAudit
    \/ CreateSnapshot
    \/ PauseSnapshot
    \/ ResumeSnapshot
    \/ EditSnapshot
    \/ DeleteSnapshot

SpecSnapshot == InitSnapshot /\ [][NextSnapshot]_vars

(***************************************************************************)
(* Claims about the snapshots (SpecSnapshot).                              *)
(***************************************************************************)
\* C28: no create of the dashboard and no create-snapshot of the project
\* page picks a number that a snapshot of the project already has, so that
\* none fails on the unique index.
C28_NumbersNeverCollide ==
    reply # NULL
        => ~(/\ reply.action \in {"create", "create-snapshot"}
             /\ reply.status = 500)

\* at most one snapshot is ACTIVE after the step, and a create or resume
\* taken while a snapshot is ACTIVE answers 400 and leaves the rows alone
C29_Step ==
    /\ Cardinality(ActiveSnapshots') <= 1
    /\ (/\ ActiveSnapshots # {}
        /\ reply'.action \in {"create", "create-snapshot", "resume-snapshot"})
          => /\ reply'.status = 400
             /\ snapshots' = snapshots
             /\ project' = project

\* C29: when the actions run one at a time, the project never has more than
\* one ACTIVE snapshot, and every create, create-snapshot or resume-snapshot
\* attempted while a snapshot is ACTIVE is rejected and changes nothing.
C29_AtMostOneActive == [][C29_Step]_vars

\* C29 witness: of two snapshots one is ACTIVE and one PAUSED, and resuming
\* the PAUSED one has just been rejected.
C29_Witness ==
    /\ reply # NULL
    /\ reply.action = "resume-snapshot" /\ reply.status = 400
    /\ Cardinality(snapshots) = 2
    /\ Cardinality(ActiveSnapshots) = 1
    /\ \E s \in snapshots : s.id = reply.snapshotId /\ s.status = "PAUSED"

=============================================================================
